---- MODULE Spec2Model ----
(***************************************************************************)
(* Graph storage (identifier index, CSR adjacency) and the Dijkstra        *)
(* shortest-path solver of src/src/graph.c and src/src/dijkstra.c.         *)
(*                                                                         *)
(* C arrays are functions over 0..n-1, so that indices are the source's.  *)
(* A double is held in fixed point: the integer d * 1000 stands for d      *)
(* (metres in distance mode, minutes in time mode).  The speeds and        *)
(* lengths of the model make every cost exact in that representation.      *)
(***************************************************************************)
EXTENDS Integers, Sequences, FiniteSets, TLC

\* ------------------------------------------------------------------------
\* Bounds of the model
\* ------------------------------------------------------------------------
MaxNodes == 3          \* node arrays hold 2..MaxNodes nodes
MaxEdges == 2          \* general family: edge arrays hold 1..MaxEdges edges
MaxLength == 2         \* general family: edge lengths 1..MaxLength
MaxParallel == 4       \* bundle family: up to MaxParallel parallel edges
MaxDetour == 3         \* triangle family: edge lengths 1..MaxDetour
AbsentId == 99         \* a node id that no node array holds
MaxLoadNodes == 2      \* loader files: up to MaxLoadNodes node records
MaxLoadEdges == 2      \* loader files: up to MaxLoadEdges edge records
MaxRepeatDetour == 2   \* repeated solves: triangle edge lengths 1..MaxRepeatDetour
MaxRepeatParallel == 3 \* repeated solves: up to MaxRepeatParallel parallel edges
MaxCreateEdges == 16   \* create_graph: edge counts 0..MaxCreateEdges
MaxHeapCapacity == 4   \* heap on its own: capacities 1..MaxHeapCapacity
MaxHeapCost == 2       \* heap on its own: costs 0..MaxHeapCost
MaxCycleLength == 1    \* cycle family: edge lengths 0..MaxCycleLength
MaxSpeedParallel == 4  \* speed family: up to MaxSpeedParallel parallel edges

\* ------------------------------------------------------------------------
\* Program constants
\* ------------------------------------------------------------------------
ERR_SUCCESS == 0
ERR_INVALID_ARGUMENT == -2
ERR_MEMORY_ALLOCATION == -3
ERR_FILE_NOT_FOUND == -4
ERR_FILE_READ == -5
ERR_NOT_FOUND == -13
ERR_INVALID_DATA == -14

DIJKSTRA_SHORTEST_DISTANCE == 1
DIJKSTRA_FASTEST_TIME == 2

HASH_TABLE_SIZE == 65536

\* DBL_MAX: larger than every cost a path of the model can have.
INFINITY_DBL == 1000000000

\* The fixed-point image of a double constant or of an integer converted
\* to double.
ToDouble(n) == n * 1000

\* ------------------------------------------------------------------------
\* 32-bit unsigned arithmetic on <<high 16 bits, low 16 bits>>
\* ------------------------------------------------------------------------
RECURSIVE Xor16(_, _, _)
Xor16(a, b, bits) ==
  IF bits = 0 THEN 0
  ELSE (((a % 2) + (b % 2)) % 2) + 2 * Xor16(a \div 2, b \div 2, bits - 1)

U32(n) == <<n \div 65536, n % 65536>>

U32Xor(x, y) == <<Xor16(x[1], y[1], 16), Xor16(x[2], y[2], 16)>>

U32Shr16(x) == <<0, x[1]>>

U32Shr13(x) == <<x[1] \div 8192, ((x[1] % 8192) * 8) + (x[2] \div 8192)>>

\* (a * b) mod 2^16 for 16-bit a, b, without leaving 31 bits.
MulLow16(a, b) ==
  (((a % 256) * b) + ((((a \div 256) * (b % 256)) % 256) * 256)) % 65536

\* (a * b) div 2^16 for 16-bit a, b, without leaving 31 bits.
MulHigh16(a, b) ==
  LET x == (a % 256) * b
      y == (a \div 256) * b
  IN  (y \div 256) + ((((y % 256) * 256) + x) \div 65536)

\* (x * y) mod 2^32
U32Mul(x, y) ==
  <<(MulLow16(x[1], y[2]) + MulLow16(x[2], y[1]) + MulHigh16(x[2], y[2])) % 65536,
    MulLow16(x[2], y[2])>>

\* x mod size, for 0 < size <= 65536
U32Mod(x, size) == (((x[1] % size) * (65536 % size)) + (x[2] % size)) % size

Word32 == (0..65535) \X (0..65535)

\* key ^= key >> 16
XorShift16[key \in Word32] == U32Xor(key, U32Shr16(key))

\* key ^= key >> 13
XorShift13[key \in Word32] == U32Xor(key, U32Shr13(key))

\* key *= 0x85ebca6b
Mix1[key \in Word32] == U32Mul(key, <<34283, 51819>>)

\* key *= 0xc2b2ae35
Mix2[key \in Word32] == U32Mul(key, <<49842, 44597>>)

\* The five steps of hash_murmur3_32 on a 32-bit key.
Murmur(key) == XorShift16[Mix2[XorShift13[Mix1[XorShift16[key]]]]]

\* The hashes of the ids the model uses (each below 256), computed once.
MurmurTable == [id \in 0..255 |-> Murmur(U32(id))]

hash_murmur3_32(node_id) == MurmurTable[node_id]

\* ------------------------------------------------------------------------
\* The allocator, as one call of the program sees it
\* ------------------------------------------------------------------------
\* The name of a buffer the program allocates once per call, and of the entry
\* at a position (counted from the tail) of a chain of the index.
Buf(name) == <<name, 0, 0>>

Entry(hash_index, position) == <<"entry", hash_index, position>>

\* mem is [fail_at, calls, live, bad]: the allocation call that returns NULL
\* (0 for none), the allocation calls made so far, the buffers allocated and
\* not freed, and the buffers freed while not allocated (a double free).
NewMem(fail_at, live) == [fail_at |-> fail_at, calls |-> 0, live |-> live, bad |-> {}]

\* malloc / calloc of the buffer buf: ok is FALSE for a NULL return.  (m is
\* mem, evaluated once.)
Malloc(mem, buf) ==
  CHOOSE r \in
    {IF m.calls + 1 = m.fail_at
       THEN [ok |-> FALSE, mem |-> [m EXCEPT !.calls = @ + 1]]
       ELSE [ok |-> TRUE, mem |-> [m EXCEPT !.calls = @ + 1, !.live = @ \cup {buf}]] :
     m \in {mem}} : TRUE

\* free of the buffer buf.
Free(mem, buf) ==
  CHOOSE r \in
    {IF buf \in m.live
       THEN [m EXCEPT !.live = @ \ {buf}]
       ELSE [m EXCEPT !.bad = @ \cup {buf}] :
     m \in {mem}} : TRUE

\* free of each buffer of the sequence bufs in turn.
RECURSIVE FreeAll(_, _)
FreeAll(mem, bufs) ==
  IF bufs = <<>> THEN mem ELSE FreeAll(Free(mem, Head(bufs)), Tail(bufs))

\* ------------------------------------------------------------------------
\* Identifier index (NodeHashTable)
\* ------------------------------------------------------------------------
\* buckets maps a bucket index to its collision chain, head first; a bucket
\* outside the domain is a NULL chain.  The entry at place k from the tail of
\* the chain of bucket b is the buffer <<"entry", b, k>>.
create_node_hash_table(mem, size) ==
  IF size <= 0
    THEN [err |-> ERR_INVALID_ARGUMENT, node_hash |-> <<>>, mem |-> mem]
    ELSE
      LET table == Malloc(mem, Buf("node_hash"))
          buckets == Malloc(table.mem, Buf("buckets"))
      IN  IF ~table.ok
            THEN [err |-> ERR_MEMORY_ALLOCATION, node_hash |-> <<>>, mem |-> table.mem]
          ELSE IF ~buckets.ok
            THEN [err |-> ERR_MEMORY_ALLOCATION, node_hash |-> <<>>,
                  mem |-> Free(buckets.mem, Buf("node_hash"))]
          ELSE [err |-> ERR_SUCCESS,
                node_hash |-> [buckets |-> <<>>, size |-> size, count |-> 0],
                mem |-> buckets.mem]

Chain(node_hash, hash_index) ==
  IF hash_index \in DOMAIN node_hash.buckets
    THEN node_hash.buckets[hash_index] ELSE <<>>

insert_node_hash(mem, node_hash, node_id, node_index) ==
  IF node_index < 0
    THEN [err |-> ERR_INVALID_ARGUMENT, node_hash |-> node_hash, mem |-> mem]
    ELSE
      CHOOSE r \in
        {LET hash_index == U32Mod(hash, table.size)
             old_chain == Chain(table, hash_index)
             alloc == Malloc(m, Entry(hash_index, Len(old_chain)))
             new_entry == [node_id |-> node_id, node_index |-> node_index]
             chain == <<new_entry>> \o old_chain
         IN  IF ~alloc.ok
               THEN [err |-> ERR_MEMORY_ALLOCATION, node_hash |-> table,
                     mem |-> alloc.mem]
               ELSE [err |-> ERR_SUCCESS,
                     node_hash |->
                       [buckets |-> [b \in DOMAIN table.buckets \cup {hash_index} |->
                                       IF b = hash_index THEN chain
                                       ELSE table.buckets[b]],
                        size |-> table.size,
                        count |-> table.count + 1],
                     mem |-> alloc.mem] :
         m \in {mem}, table \in {node_hash}, hash \in {hash_murmur3_32(node_id)}} : TRUE

\* The buffers of the entries of every chain, in the order free_node_hash_table
\* walks them: bucket by bucket, each chain from its head.
RECURSIVE ChainEntries(_, _, _)
ChainEntries(node_hash, todo, acc) ==
  IF todo = {} THEN acc
  ELSE
    LET b == CHOOSE x \in todo : \A y \in todo : x <= y
        len == Len(node_hash.buckets[b])
    IN  ChainEntries(node_hash, todo \ {b},
                     acc \o [k \in 1..len |-> Entry(b, len - k)])

free_node_hash_table(mem, node_hash) ==
  CHOOSE r \in
    {Free(Free(FreeAll(m, ChainEntries(h, DOMAIN h.buckets, <<>>)),
               Buf("buckets")),
          Buf("node_hash")) :
     m \in {mem}, h \in {node_hash}} : TRUE

\* Mutant: a chain without the id yields index -1 and no error.
RECURSIVE WalkChainMissSucceeds(_, _, _)
WalkChainMissSucceeds(chain, k, node_id) ==
  IF k > Len(chain) THEN [err |-> ERR_SUCCESS, index |-> -1]
  ELSE IF chain[k].node_id = node_id
    THEN [err |-> ERR_SUCCESS, index |-> chain[k].node_index]
    ELSE WalkChainMissSucceeds(chain, k + 1, node_id)

RECURSIVE WalkChain(_, _, _)
WalkChain(chain, k, node_id) ==
  IF k > Len(chain) THEN [err |-> ERR_NOT_FOUND, index |-> -1]
  ELSE IF chain[k].node_id = node_id
    THEN [err |-> ERR_SUCCESS, index |-> chain[k].node_index]
    ELSE WalkChain(chain, k + 1, node_id)

\* Mutant: a lookup that misses leaves an entry for the id in its bucket.
lookup_node_hash_inserts(node_hash, node_id) ==
  CHOOSE r \in
    {LET found == WalkChain(Chain(node_hash, hash_index), 1, node_id)
         new_entry == [node_id |-> node_id, node_index |-> -1]
     IN  [err |-> found.err, index |-> found.index,
          node_hash |->
            IF found.err = ERR_SUCCESS THEN node_hash
            ELSE [buckets |-> [b \in DOMAIN node_hash.buckets \cup {hash_index} |->
                                 IF b = hash_index
                                   THEN <<new_entry>> \o Chain(node_hash, hash_index)
                                   ELSE node_hash.buckets[b]],
                  size |-> node_hash.size,
                  count |-> node_hash.count + 1]] :
     hash_index \in {U32Mod(hash_murmur3_32(node_id), node_hash.size)}} : TRUE

\* node_hash in the result is the table as the call leaves it: the code
\* writes nothing to it.
lookup_node_hash(node_hash, node_id) ==
  CHOOSE r \in
    {[err |-> found.err, index |-> found.index, node_hash |-> node_hash] :
     found \in {WalkChain(Chain(node_hash,
                                U32Mod(hash_murmur3_32(node_id), node_hash.size)),
                          1, node_id)}} : TRUE

find_node_index(graph, node_id) == lookup_node_hash(graph.node_hash, node_id)

\* ------------------------------------------------------------------------
\* Graph construction
\* ------------------------------------------------------------------------
\* The arrays malloc leaves unwritten are <<>> (nodes, edges) or hold -1
\* (adj_indices); the code reads none of them before writing it.  ptr is what
\* the call leaves in the caller's Graph pointer: "unchanged" (never
\* assigned), "NULL", "dangling" (the address of a freed Graph) or "valid".
create_graph(mem, num_nodes, num_edges) ==
  IF num_nodes <= 0 \/ num_edges <= 0
    THEN [err |-> ERR_INVALID_ARGUMENT, graph |-> <<>>, mem |-> mem, ptr |-> "unchanged"]
    ELSE
      LET g == Malloc(mem, Buf("graph"))
          nodes == Malloc(g.mem, Buf("nodes"))
          edges == Malloc(nodes.mem, Buf("edges"))
          adj_offsets == Malloc(edges.mem, Buf("adj_offsets"))
          adj_indices == Malloc(adj_offsets.mem, Buf("adj_indices"))
          hash_size == IF num_nodes > HASH_TABLE_SIZE
                         THEN num_nodes * 2 ELSE HASH_TABLE_SIZE
          table == create_node_hash_table(adj_indices.mem, hash_size)
          Failed(err, m) == [err |-> err, graph |-> <<>>, mem |-> m, ptr |-> "dangling"]
      IN  IF ~g.ok
            THEN [err |-> ERR_MEMORY_ALLOCATION, graph |-> <<>>, mem |-> g.mem,
                  ptr |-> "NULL"]
          ELSE IF ~nodes.ok
            THEN Failed(ERR_MEMORY_ALLOCATION, FreeAll(nodes.mem, <<Buf("graph")>>))
          ELSE IF ~edges.ok
            THEN Failed(ERR_MEMORY_ALLOCATION, FreeAll(edges.mem, <<Buf("nodes"), Buf("graph")>>))
          ELSE IF ~adj_offsets.ok
            THEN Failed(ERR_MEMORY_ALLOCATION,
                        FreeAll(adj_offsets.mem, <<Buf("edges"), Buf("nodes"), Buf("graph")>>))
          ELSE IF ~adj_indices.ok
            THEN Failed(ERR_MEMORY_ALLOCATION,
                        FreeAll(adj_indices.mem,
                                <<Buf("adj_offsets"), Buf("edges"), Buf("nodes"), Buf("graph")>>))
          ELSE IF table.err # ERR_SUCCESS
            THEN Failed(table.err,
                        FreeAll(table.mem,
                                <<Buf("adj_indices"), Buf("adj_offsets"), Buf("edges"), Buf("nodes"), Buf("graph")>>))
          ELSE [err |-> ERR_SUCCESS,
                graph |-> [nodes |-> <<>>,
                           edges |-> <<>>,
                           adj_offsets |-> [i \in 0..num_nodes |-> 0],
                           adj_indices |-> [i \in 0..(num_edges * 2 - 1) |-> -1],
                           node_hash |-> table.node_hash,
                           num_nodes |-> num_nodes,
                           num_edges |-> num_edges],
                mem |-> table.mem,
                ptr |-> "valid"]

free_graph(mem, graph) ==
  CHOOSE r \in
    {Free(free_node_hash_table(FreeAll(m, <<Buf("nodes"), Buf("edges"), Buf("adj_offsets"), Buf("adj_indices")>>),
                               g.node_hash),
          Buf("graph")) :
     m \in {mem}, g \in {graph}} : TRUE

\* Mutant: the one-way test negated.
ListedAtToNegated(edge, to_index) == edge.one_way # 0 /\ to_index >= 0

\* Both passes of build_csr_representation: the edge also goes into the
\* adjacency list of its to endpoint (it is not one-way).
ListedAtTo(edge, to_index) == edge.one_way = 0 /\ to_index >= 0

\* First pass of build_csr_representation: edges i.. counted into degree.
RECURSIVE CountDegrees(_, _, _)
CountDegrees(graph, i, degree) ==
  IF i >= graph.num_edges THEN [err |-> ERR_SUCCESS, degree |-> degree]
  ELSE
    CHOOSE r \in
      {IF from.err # ERR_SUCCESS THEN [err |-> from.err, degree |-> degree]
       ELSE IF to.err # ERR_SUCCESS THEN [err |-> to.err, degree |-> degree]
       ELSE
         LET d1 == IF from.index >= 0
                     THEN [degree EXCEPT ![from.index] = @ + 1] ELSE degree
             d2 == IF ListedAtTo(graph.edges[i], to.index)
                     THEN [d1 EXCEPT ![to.index] = @ + 1] ELSE d1
         IN  CountDegrees(graph, i + 1, d2) :
       from \in {find_node_index(graph, graph.edges[i].from_node)},
       to \in {find_node_index(graph, graph.edges[i].to_node)}} : TRUE

\* Mutant: the prefix sum taken over the degrees in reverse node order.
RECURSIVE PrefixSumReversed(_, _, _, _)
PrefixSumReversed(adj_offsets, degree, i, num_nodes) ==
  IF i >= num_nodes THEN adj_offsets
  ELSE PrefixSumReversed([adj_offsets EXCEPT
                            ![i + 1] = adj_offsets[i] + degree[num_nodes - 1 - i]],
                         degree, i + 1, num_nodes)

\* The prefix sum: adj_offsets[i + 1] = adj_offsets[i] + degree[i], from i on.
RECURSIVE PrefixSum(_, _, _, _)
PrefixSum(adj_offsets, degree, i, num_nodes) ==
  IF i >= num_nodes THEN adj_offsets
  ELSE PrefixSum([adj_offsets EXCEPT ![i + 1] = adj_offsets[i] + degree[i]],
                 degree, i + 1, num_nodes)

\* Mutant: each adjacency range is filled from its end.
RECURSIVE ScatterFromEnd(_, _, _, _)
ScatterFromEnd(graph, i, degree, adj_indices) ==
  IF i >= graph.num_edges THEN [err |-> ERR_SUCCESS, adj_indices |-> adj_indices]
  ELSE
    CHOOSE r \in
      {IF from.err # ERR_SUCCESS THEN [err |-> from.err, adj_indices |-> adj_indices]
       ELSE IF to.err # ERR_SUCCESS THEN [err |-> to.err, adj_indices |-> adj_indices]
       ELSE
         LET put1 == from.index >= 0
             pos1 == graph.adj_offsets[from.index + 1] - 1 - degree[from.index]
             a1 == IF put1 THEN [adj_indices EXCEPT ![pos1] = i] ELSE adj_indices
             d1 == IF put1 THEN [degree EXCEPT ![from.index] = @ + 1] ELSE degree
             put2 == ListedAtTo(graph.edges[i], to.index)
             pos2 == graph.adj_offsets[to.index + 1] - 1 - d1[to.index]
             a2 == IF put2 THEN [a1 EXCEPT ![pos2] = i] ELSE a1
             d2 == IF put2 THEN [d1 EXCEPT ![to.index] = @ + 1] ELSE d1
         IN  ScatterFromEnd(graph, i + 1, d2, a2) :
       from \in {find_node_index(graph, graph.edges[i].from_node)},
       to \in {find_node_index(graph, graph.edges[i].to_node)}} : TRUE

\* Second pass: edges i.. scattered into adj_indices, degree the write cursor.
RECURSIVE Scatter(_, _, _, _)
Scatter(graph, i, degree, adj_indices) ==
  IF i >= graph.num_edges THEN [err |-> ERR_SUCCESS, adj_indices |-> adj_indices]
  ELSE
    CHOOSE r \in
      {IF from.err # ERR_SUCCESS THEN [err |-> from.err, adj_indices |-> adj_indices]
       ELSE IF to.err # ERR_SUCCESS THEN [err |-> to.err, adj_indices |-> adj_indices]
       ELSE
         LET put1 == from.index >= 0
             pos1 == graph.adj_offsets[from.index] + degree[from.index]
             a1 == IF put1 THEN [adj_indices EXCEPT ![pos1] = i] ELSE adj_indices
             d1 == IF put1 THEN [degree EXCEPT ![from.index] = @ + 1] ELSE degree
             put2 == ListedAtTo(graph.edges[i], to.index)
             pos2 == graph.adj_offsets[to.index] + d1[to.index]
             a2 == IF put2 THEN [a1 EXCEPT ![pos2] = i] ELSE a1
             d2 == IF put2 THEN [d1 EXCEPT ![to.index] = @ + 1] ELSE d1
         IN  Scatter(graph, i + 1, d2, a2) :
       from \in {find_node_index(graph, graph.edges[i].from_node)},
       to \in {find_node_index(graph, graph.edges[i].to_node)}} : TRUE

build_csr_representation(mem, graph) ==
  LET Zero(g) == [i \in 0..(g.num_nodes - 1) |-> 0]
      Pass2(g1, freed) ==
        CHOOSE r \in
          {[err |-> pass2.err,
            graph |-> [g1 EXCEPT !.adj_indices = pass2.adj_indices],
            mem |-> freed] :
           pass2 \in {Scatter(g1, 0, Zero(g1), g1.adj_indices)}} : TRUE
      Offsets(g, pass1, freed) ==
        CHOOSE r \in
          {Pass2([g EXCEPT !.adj_offsets = offsets], freed) :
           offsets \in {PrefixSum([g.adj_offsets EXCEPT ![0] = 0],
                                  pass1.degree, 0, g.num_nodes)}} : TRUE
      Pass1(g, freed) ==
        CHOOSE r \in
          {IF pass1.err # ERR_SUCCESS
             THEN [err |-> pass1.err, graph |-> g, mem |-> freed]
             ELSE Offsets(g, pass1, freed) :
           pass1 \in {CountDegrees(g, 0, Zero(g))}} : TRUE
  IN  CHOOSE r \in
        {IF ~degree.ok
           THEN [err |-> ERR_MEMORY_ALLOCATION, graph |-> g, mem |-> degree.mem]
           ELSE Pass1(g, Free(degree.mem, Buf("degree"))) :
         g \in {graph}, degree \in {Malloc(mem, Buf("degree"))}} : TRUE

get_adjacent_edges_csr(graph, node_index) ==
  IF node_index < 0 \/ node_index >= graph.num_nodes
    THEN [err |-> ERR_INVALID_ARGUMENT, start_idx |-> 0, end_idx |-> 0]
    ELSE [err |-> ERR_SUCCESS,
          start_idx |-> graph.adj_offsets[node_index],
          end_idx |-> graph.adj_offsets[node_index + 1]]

\* load_nodes_from_binary after the fread: one insert per array position.
RECURSIVE InsertNodes(_, _, _, _)
InsertNodes(mem, node_hash, nodes, i) ==
  IF i >= Cardinality(DOMAIN nodes)
    THEN [err |-> ERR_SUCCESS, node_hash |-> node_hash, mem |-> mem]
    ELSE
      CHOOSE r \in
        {IF ins.err # ERR_SUCCESS THEN ins
         ELSE InsertNodes(ins.mem, ins.node_hash, nodes, i + 1) :
         ins \in {insert_node_hash(mem, node_hash, nodes[i].node_id, i)}} : TRUE

\* nodes holds the records the file has after its header; a file with fewer
\* than num_nodes of them makes the fread come up short.
load_nodes_from_binary(mem, graph, nodes) ==
  CHOOSE r \in
    {IF Cardinality(DOMAIN nodes) # g.num_nodes
       THEN [err |-> ERR_FILE_READ, graph |-> [g EXCEPT !.nodes = nodes], mem |-> m]
       ELSE
         LET g1 == [g EXCEPT !.nodes = nodes]
             ins == InsertNodes(m, g1.node_hash, nodes, 0)
         IN  [err |-> ins.err, graph |-> [g1 EXCEPT !.node_hash = ins.node_hash],
              mem |-> ins.mem] :
     m \in {mem}, g \in {graph}} : TRUE

\* load_edges_from_binary after the fread: both endpoints of every edge
\* from i on resolve.
RECURSIVE ValidateEdges(_, _)
ValidateEdges(graph, i) ==
  IF i >= graph.num_edges THEN ERR_SUCCESS
  ELSE
    CHOOSE r \in
      {IF from.err # ERR_SUCCESS THEN from.err
       ELSE IF to.err # ERR_SUCCESS THEN to.err
       ELSE ValidateEdges(graph, i + 1) :
       from \in {find_node_index(graph, graph.edges[i].from_node)},
       to \in {find_node_index(graph, graph.edges[i].to_node)}} : TRUE

load_edges_from_binary(graph, edges) ==
  CHOOSE r \in
    {LET g1 == [g EXCEPT !.edges = edges]
     IN  IF Cardinality(DOMAIN edges) # g.num_edges
           THEN [err |-> ERR_FILE_READ, graph |-> g1]
           ELSE [err |-> ValidateEdges(g1, 0), graph |-> g1] :
     g \in {graph}} : TRUE

\* files is [nodes_file, num_nodes, nodes, edges_file, num_edges, edges]:
\* each file is "absent", "empty" (no header) or "ok", with the count in its
\* header and the records that follow it.  After create_graph the caller's
\* pointer is never assigned again, so a later failure leaves it at the Graph
\* free_graph released.
load_graph_from_binary(mem, files) ==
  LET NotOpened(err) == [err |-> err, graph |-> <<>>, mem |-> mem, ptr |-> "unchanged"]
      Failed(err, g, m) ==
        [err |-> err, graph |-> g, mem |-> free_graph(m, g), ptr |-> "dangling"]
      Build(n, e) ==
        CHOOSE r \in
          {IF csr.err # ERR_SUCCESS THEN Failed(csr.err, csr.graph, csr.mem)
           ELSE [err |-> ERR_SUCCESS, graph |-> csr.graph, mem |-> csr.mem,
                 ptr |-> "valid"] :
           csr \in {build_csr_representation(n.mem, e.graph)}} : TRUE
      LoadEdges(n) ==
        CHOOSE r \in
          {IF e.err # ERR_SUCCESS THEN Failed(e.err, e.graph, n.mem)
           ELSE Build(n, e) :
           e \in {load_edges_from_binary(n.graph, files.edges)}} : TRUE
      LoadNodes(created) ==
        CHOOSE r \in
          {IF n.err # ERR_SUCCESS THEN Failed(n.err, n.graph, n.mem)
           ELSE LoadEdges(n) :
           n \in {load_nodes_from_binary(created.mem, created.graph, files.nodes)}} : TRUE
  IN  IF files.nodes_file = "absent" THEN NotOpened(ERR_FILE_NOT_FOUND)
      ELSE IF files.nodes_file = "empty" THEN NotOpened(ERR_FILE_READ)
      ELSE IF files.edges_file = "absent" THEN NotOpened(ERR_FILE_NOT_FOUND)
      ELSE IF files.edges_file = "empty" THEN NotOpened(ERR_FILE_READ)
      ELSE
        CHOOSE r \in
          {IF created.err # ERR_SUCCESS THEN created ELSE LoadNodes(created) :
           created \in {create_graph(mem, files.num_nodes, files.num_edges)}} : TRUE

\* ------------------------------------------------------------------------
\* MinHeap
\* ------------------------------------------------------------------------
\* Mutant: the MinHeap is kept when its node array cannot be allocated.
create_heap_keeps_heap(mem, capacity) ==
  IF capacity <= 0
    THEN [err |-> ERR_INVALID_ARGUMENT, heap |-> <<>>, mem |-> mem]
    ELSE
      LET h == Malloc(mem, Buf("heap"))
          nodes == Malloc(h.mem, Buf("heap_nodes"))
      IN  IF ~h.ok
            THEN [err |-> ERR_MEMORY_ALLOCATION, heap |-> <<>>, mem |-> h.mem]
          ELSE IF ~nodes.ok
            THEN [err |-> ERR_MEMORY_ALLOCATION, heap |-> <<>>, mem |-> nodes.mem]
          ELSE [err |-> ERR_SUCCESS,
                heap |-> [nodes |-> <<>>, size |-> 0, capacity |-> capacity],
                mem |-> nodes.mem]

\* heap.nodes holds the live slots 0..size-1; the slots malloc or an extraction
\* leaves beyond size are never read.
create_heap(mem, capacity) ==
  CHOOSE r \in
    {IF capacity <= 0
       THEN [err |-> ERR_INVALID_ARGUMENT, heap |-> <<>>, mem |-> m]
       ELSE
         LET h == Malloc(m, Buf("heap"))
             nodes == Malloc(h.mem, Buf("heap_nodes"))
         IN  IF ~h.ok
               THEN [err |-> ERR_MEMORY_ALLOCATION, heap |-> <<>>, mem |-> h.mem]
             ELSE IF ~nodes.ok
               THEN [err |-> ERR_MEMORY_ALLOCATION, heap |-> <<>>,
                     mem |-> Free(nodes.mem, Buf("heap"))]
             ELSE [err |-> ERR_SUCCESS,
                   heap |-> [nodes |-> <<>>, size |-> 0, capacity |-> capacity],
                   mem |-> nodes.mem] :
     m \in {mem}} : TRUE

free_heap(mem) == FreeAll(mem, <<Buf("heap_nodes"), Buf("heap")>>)

swap_heap_nodes(nodes, a, b) ==
  [nodes EXCEPT ![a] = nodes[b], ![b] = nodes[a]]

is_heap_empty(heap) == heap.size = 0

\* Mutant: the sift-down looks at the left child only.
RECURSIVE min_heapify_left_only(_, _)
min_heapify_left_only(heap, idx) ==
  LET left == 2 * idx + 1
      smallest == IF left < heap.size /\ heap.nodes[left].distance < heap.nodes[idx].distance
                    THEN left ELSE idx
  IN  IF smallest # idx
        THEN min_heapify_left_only(
               [heap EXCEPT !.nodes = swap_heap_nodes(heap.nodes, idx, smallest)],
               smallest)
        ELSE heap

RECURSIVE min_heapify(_, _)
min_heapify(heap, idx) ==
  LET left == 2 * idx + 1
      right == 2 * idx + 2
      s1 == IF left < heap.size /\ heap.nodes[left].distance < heap.nodes[idx].distance
              THEN left ELSE idx
      smallest == IF right < heap.size /\ heap.nodes[right].distance < heap.nodes[s1].distance
                    THEN right ELSE s1
  IN  IF smallest # idx
        THEN min_heapify([heap EXCEPT !.nodes = swap_heap_nodes(heap.nodes, idx, smallest)],
                         smallest)
        ELSE heap

\* Mutant: the new entry stays where it was appended.
SiftUpStays(nodes, i) == nodes

\* The sift-up loop of insert_heap.
RECURSIVE SiftUp(_, _)
SiftUp(nodes, i) ==
  IF i # 0 /\ nodes[(i - 1) \div 2].distance > nodes[i].distance
    THEN SiftUp(swap_heap_nodes(nodes, i, (i - 1) \div 2), (i - 1) \div 2)
    ELSE nodes

insert_heap(heap, node_index, distance) ==
  IF heap.size >= heap.capacity
    THEN [err |-> ERR_MEMORY_ALLOCATION, heap |-> heap]
    ELSE
      LET i == heap.size
          appended == [k \in 0..i |->
                         IF k = i THEN [node_index |-> node_index, distance |-> distance]
                         ELSE heap.nodes[k]]
      IN  [err |-> ERR_SUCCESS,
           heap |-> [heap EXCEPT !.nodes = SiftUp(appended, i), !.size = i + 1]]

\* Mutant: the least entry is returned and stays in the heap.
extract_min_keeps_entry(heap) ==
  IF is_heap_empty(heap)
    THEN [err |-> ERR_SUCCESS,
          min_node |-> [node_index |-> -1, distance |-> INFINITY_DBL],
          heap |-> heap]
    ELSE [err |-> ERR_SUCCESS, min_node |-> heap.nodes[0], heap |-> heap]

\* Mutant: an empty heap is reported as an error.
extract_min_empty_fails(heap) ==
  IF is_heap_empty(heap)
    THEN [err |-> ERR_INVALID_ARGUMENT,
          min_node |-> [node_index |-> -1, distance |-> INFINITY_DBL],
          heap |-> heap]
  ELSE IF heap.size = 1
    THEN [err |-> ERR_SUCCESS,
          min_node |-> heap.nodes[0],
          heap |-> [heap EXCEPT !.nodes = <<>>, !.size = 0]]
  ELSE
    LET moved == [k \in 0..(heap.size - 2) |->
                    IF k = 0 THEN heap.nodes[heap.size - 1] ELSE heap.nodes[k]]
    IN  [err |-> ERR_SUCCESS,
         min_node |-> heap.nodes[0],
         heap |-> min_heapify([heap EXCEPT !.nodes = moved, !.size = heap.size - 1], 0)]

extract_min(heap) ==
  IF is_heap_empty(heap)
    THEN [err |-> ERR_SUCCESS,
          min_node |-> [node_index |-> -1, distance |-> INFINITY_DBL],
          heap |-> heap]
  ELSE IF heap.size = 1
    THEN [err |-> ERR_SUCCESS,
          min_node |-> heap.nodes[0],
          heap |-> [heap EXCEPT !.nodes = <<>>, !.size = 0]]
  ELSE
    LET moved == [k \in 0..(heap.size - 2) |->
                    IF k = 0 THEN heap.nodes[heap.size - 1] ELSE heap.nodes[k]]
    IN  [err |-> ERR_SUCCESS,
         min_node |-> heap.nodes[0],
         heap |-> min_heapify([heap EXCEPT !.nodes = moved, !.size = heap.size - 1], 0)]

\* ------------------------------------------------------------------------
\* dijkstra_shortest_path
\* ------------------------------------------------------------------------
\* The capacity the solver gives its heap.
HeapCapacity(graph) == graph.num_nodes

\* Mutant: an edge is followed from its from endpoint only.
NeighborForwardOnly(edge, from_index, to_index, current_index) ==
  IF from_index = current_index THEN to_index ELSE -1

\* The neighbour an adjacency edge leads to from current_index, -1 for none.
Neighbor(edge, from_index, to_index, current_index) ==
  IF from_index = current_index THEN to_index
  ELSE IF to_index = current_index /\ edge.one_way = 0 THEN from_index
  ELSE -1

\* Mutant: the division by the speed limit left out.
TravelTimeNoSpeed(edge) == (ToDouble(edge.length) * 60) \div 1000

\* Travel time in minutes: (length / 1000.0 / speed_limit) * 60.0.
TravelTime(edge) == (ToDouble(edge.length) * 60) \div (1000 * edge.speed_limit)

\* The cost added for an edge in a mode (speed_limit > 0 in time mode).
EdgeCost(edge, m) ==
  IF m = DIJKSTRA_FASTEST_TIME THEN TravelTime(edge) ELSE ToDouble(edge.length)

\* Mutant: only a node not reached yet is given a distance.
RelaxesUnreachedOnly(new_distance, old_distance) == old_distance = INFINITY_DBL

\* The relaxation test.
Relaxes(new_distance, old_distance) == new_distance < old_distance

\* The for loop over the adjacency range i..end_idx-1 of current_index; st is
\* [distances, predecessors, visited, heap, err], and an error ends the loop.
RECURSIVE RelaxEdges(_, _, _, _, _, _)
RelaxEdges(graph, m, current_index, i, end_idx, st) ==
  IF i >= end_idx \/ st.err # ERR_SUCCESS THEN st
  ELSE
    LET edge == graph.edges[graph.adj_indices[i]]
        from == find_node_index(graph, edge.from_node)
        to == find_node_index(graph, edge.to_node)
    IN  IF from.err # ERR_SUCCESS THEN [st EXCEPT !.err = from.err]
        ELSE IF to.err # ERR_SUCCESS THEN [st EXCEPT !.err = to.err]
        ELSE
          LET neighbor == Neighbor(edge, from.index, to.index, current_index)
          IN  IF neighbor = -1 \/ neighbor < 0 \/ neighbor >= graph.num_nodes
                THEN RelaxEdges(graph, m, current_index, i + 1, end_idx, st)
              ELSE IF st.visited[neighbor]
                THEN RelaxEdges(graph, m, current_index, i + 1, end_idx, st)
              ELSE IF m = DIJKSTRA_FASTEST_TIME /\ edge.speed_limit <= 0
                THEN [st EXCEPT !.err = ERR_INVALID_DATA]
              ELSE
                LET new_distance == st.distances[current_index] + EdgeCost(edge, m)
                IN  IF Relaxes(new_distance, st.distances[neighbor])
                      THEN
                        LET ins == insert_heap(st.heap, neighbor, new_distance)
                        IN  RelaxEdges(graph, m, current_index, i + 1, end_idx,
                              [st EXCEPT !.distances[neighbor] = new_distance,
                                         !.predecessors[neighbor] = current_index,
                                         !.heap = ins.heap,
                                         !.err = ins.err])
                      ELSE RelaxEdges(graph, m, current_index, i + 1, end_idx, st)

\* Mutant: the distances start at 0, as calloc would leave them.
InitResultZeroed(graph, source_index, target_index) ==
  [distances |-> [i \in 0..(graph.num_nodes - 1) |-> ToDouble(0)],
   predecessors |-> [i \in 0..(graph.num_nodes - 1) |-> -1],
   visited |-> [i \in 0..(graph.num_nodes - 1) |-> FALSE],
   source_index |-> source_index,
   target_index |-> target_index,
   num_nodes |-> graph.num_nodes,
   target_found |-> FALSE]

\* The result arrays as the initialisation loop and the lines after it leave
\* them.
InitResult(graph, source_index, target_index) ==
  [distances |-> [i \in 0..(graph.num_nodes - 1) |->
                    IF i = source_index THEN ToDouble(0) ELSE INFINITY_DBL],
   predecessors |-> [i \in 0..(graph.num_nodes - 1) |-> -1],
   visited |-> [i \in 0..(graph.num_nodes - 1) |-> FALSE],
   source_index |-> source_index,
   target_index |-> target_index,
   num_nodes |-> graph.num_nodes,
   target_found |-> FALSE]

\* A released array is <<>>.
free_dijkstra_result(result) ==
  [result EXCEPT !.distances = <<>>, !.predecessors = <<>>, !.visited = <<>>]

\* The three frees of free_dijkstra_result.
FreeResultArrays(mem) == FreeAll(mem, <<Buf("distances"), Buf("predecessors"), Buf("visited")>>)

\* A DijkstraResult no solve has written yet.
NoResult ==
  [distances |-> <<>>, predecessors |-> <<>>, visited |-> <<>>,
   source_index |-> -1, target_index |-> -1, num_nodes |-> 0,
   target_found |-> FALSE]

NoHeap == <<>>

\* Mutant: the distance array read at the source index.
get_shortest_distance_at_source(result) ==
  IF ~result.target_found
    THEN [err |-> ERR_SUCCESS, distance |-> INFINITY_DBL]
    ELSE [err |-> ERR_SUCCESS, distance |-> result.distances[result.source_index]]

get_shortest_distance(result) ==
  IF ~result.target_found
    THEN [err |-> ERR_SUCCESS, distance |-> INFINITY_DBL]
    ELSE [err |-> ERR_SUCCESS, distance |-> result.distances[result.target_index]]

\* The first loop of get_shortest_path, from current_index with length nodes
\* counted so far: the number of steps back to the source, -1 when a
\* predecessor is -1, and -2 when the walk exceeds num_nodes steps, which
\* only a cycle of predecessors allows (the C loop then never ends).
RECURSIVE CountBack(_, _, _)
CountBack(result, current_index, length) ==
  IF current_index = result.source_index THEN length
  ELSE IF length > result.num_nodes THEN -2
  ELSE
    LET next == result.predecessors[current_index]
    IN  IF next = -1 THEN -1 ELSE CountBack(result, next, length + 1)

\* Mutant: the path written in backtracking order, target first.
RECURSIVE FillUnreversed(_, _, _, _)
FillUnreversed(result, path, i, current_index) ==
  IF i < 0 THEN path
  ELSE FillUnreversed(result,
         [path EXCEPT ![(Cardinality(DOMAIN path) - 1) - i] = current_index], i - 1,
         IF i > 0 THEN result.predecessors[current_index] ELSE current_index)

\* The second loop of get_shortest_path: path[i] down to path[0].
RECURSIVE FillBack(_, _, _, _)
FillBack(result, path, i, current_index) ==
  IF i < 0 THEN path
  ELSE FillBack(result, [path EXCEPT ![i] = current_index], i - 1,
                IF i > 0 THEN result.predecessors[current_index] ELSE current_index)

get_shortest_path(result) ==
  IF ~result.target_found
    THEN [err |-> ERR_NOT_FOUND, path_length |-> 0, path |-> <<>>, hangs |-> FALSE]
    ELSE
      LET steps == CountBack(result, result.target_index, 0)
          length == steps + 1
      IN  IF steps = -2
            THEN [err |-> ERR_SUCCESS, path_length |-> 0, path |-> <<>>, hangs |-> TRUE]
          ELSE IF steps = -1
            THEN [err |-> ERR_NOT_FOUND, path_length |-> 0, path |-> <<>>, hangs |-> FALSE]
          ELSE [err |-> ERR_SUCCESS,
                path_length |-> length,
                path |-> FillBack(result, [k \in 0..(length - 1) |-> -1],
                                  length - 1, result.target_index),
                hangs |-> FALSE]

\* ------------------------------------------------------------------------
\* Inputs
\* ------------------------------------------------------------------------
NodeId(i) == 10 * (i + 1)

NodeArray(n) == [i \in 0..(n - 1) |-> [node_id |-> NodeId(i)]]

SpeedLimits == {0, 30}

EdgeRecords(n, lengths, speeds, one_ways) ==
  {[from_node |-> NodeId(a), to_node |-> NodeId(b), length |-> l,
    speed_limit |-> s, one_way |-> o] :
     a \in 0..(n - 1), b \in 0..(n - 1), l \in lengths, s \in speeds, o \in one_ways}

NoLoop(edge) == edge.from_node # edge.to_node

\* General family: every array of 1..max_edges edges without self-loops over
\* 2..max_nodes nodes, lengths 1..max_length, speed 0 or 30, one-way or not.
GeneralInputs(max_nodes, max_edges, max_length) ==
  UNION {UNION {{<<NodeArray(n), edges>> :
                   edges \in [0..(m - 1) ->
                                {e \in EdgeRecords(n, 1..max_length, SpeedLimits, {0, 1}) :
                                   NoLoop(e)}]} :
                m \in 1..max_edges} :
         n \in 2..max_nodes}

\* Bundle family: 2..max_nodes nodes and 1..max_parallel parallel one-way
\* edges from the first node to the second, lengths 1..max_parallel, all of
\* one speed, 0 or 30.
BundleInputs(max_nodes, max_parallel) ==
  UNION {UNION {{<<NodeArray(n), edges>> :
                   edges \in UNION {[0..(m - 1) ->
                                       {[from_node |-> NodeId(0), to_node |-> NodeId(1),
                                         length |-> l, speed_limit |-> s, one_way |-> 1] :
                                          l \in 1..max_parallel}] :
                                    s \in SpeedLimits}} :
                m \in 1..max_parallel} :
         n \in 2..max_nodes}

\* Triangle family: three nodes joined by the edges first-second,
\* second-third and first-third, lengths 1..max_detour, speed 30, each edge
\* one-way or not.
TriangleInputs(max_detour) ==
  {<<NodeArray(3),
     [i \in 0..2 |->
        [from_node |-> NodeId(IF i = 1 THEN 1 ELSE 0),
         to_node |-> NodeId(IF i = 0 THEN 1 ELSE 2),
         length |-> len[i], speed_limit |-> 30, one_way |-> ow[i]]]>> :
     len \in [0..2 -> 1..max_detour], ow \in [0..2 -> {0, 1}]}

\* Cycle family: three nodes on a cycle 0 - 1 - 2 - 0, every edge one-way or
\* not, of length 0..max_length (the loader lets length 0 through).
CycleInputs(max_length) ==
  {<<NodeArray(3),
     [i \in 0..2 |->
        [from_node |-> NodeId(i), to_node |-> NodeId((i + 1) % 3),
         length |-> len[i], speed_limit |-> 30, one_way |-> ow[i]]]>> :
     len \in [0..2 -> 0..max_length], ow \in [0..2 -> {0, 1}]}

\* Speed family: two nodes and 1..max_parallel parallel one-way edges from
\* the first to the second, lengths 1..(max_parallel - 1), each of speed 0 or
\* 30.
SpeedInputs(max_parallel) ==
  UNION {{<<NodeArray(2), edges>> :
            edges \in [0..(m - 1) ->
                         {[from_node |-> NodeId(0), to_node |-> NodeId(1),
                           length |-> l, speed_limit |-> sp, one_way |-> 1] :
                            l \in 1..(max_parallel - 1), sp \in SpeedLimits}]} :
         m \in 1..max_parallel}

\* The files that hold the node array and the edge array of an input in full.
FilesOf(in) ==
  [nodes_file |-> "ok", num_nodes |-> Cardinality(DOMAIN in[1]), nodes |-> in[1],
   edges_file |-> "ok", num_edges |-> Cardinality(DOMAIN in[2]), edges |-> in[2]]

\* The loads of the inputs that succeed when no allocation fails.
Loaded(inputs) ==
  {ld \in {load_graph_from_binary(NewMem(0, {}), FilesOf(in)) : in \in inputs} :
     ld.err = ERR_SUCCESS}

LoadedGraphs(inputs) == {ld.graph : ld \in Loaded(inputs)}

SolveIds(g) == {g.nodes[i].node_id : i \in DOMAIN g.nodes} \cup {AbsentId}

ModeInputs == {DIJKSTRA_SHORTEST_DISTANCE, DIJKSTRA_FASTEST_TIME,
               DIJKSTRA_FASTEST_TIME + 1}

\* ------------------------------------------------------------------------
\* State
\* ------------------------------------------------------------------------
VARIABLES
  graph,      \* the Graph the loader built, NoGraph when there is none
  pc,         \* "unloaded", "filled", "failed", "built", "idle", "loop" (at
              \* the while test), "exit" (after break), "done"; on their own,
              \* create_graph: "uncreated", "created", "freed", the heap: "heap"
  mode,       \* the mode argument of the solve in progress or last run
  result,     \* the caller's DijkstraResult
  heap,       \* the solver's MinHeap, NoHeap when none is allocated
  ret,        \* what the last load, build or solve returned
  dist_out,   \* get_shortest_distance: [called, err, distance]
  path_out,   \* get_shortest_path: [called, err, path_length, path, hangs]
  mem,        \* the allocator: [fail_at, calls, live, bad]
  fail,       \* which allocation fails in a load, a build, a solve (0: none)
  graph_ptr,  \* the caller's Graph pointer: "NULL", "valid" or "dangling"
  lookup_out, \* find_node_index by the caller: [called, node_id, err, index]
  hist,       \* [tracking, args, last]: the arguments of the solve in hand
              \* and, when the solve before it had the same, its outcome
  min_node    \* extract_min by a caller of the heap: the HeapNode it wrote

vars == <<graph, pc, mode, result, heap, ret, dist_out, path_out,
          mem, fail, graph_ptr, lookup_out, hist, min_node>>

NoGraph == <<>>

NoDistOut == [called |-> FALSE, err |-> ERR_SUCCESS, distance |-> 0]

NoPathOut == [called |-> FALSE, err |-> ERR_SUCCESS, path_length |-> 0,
              path |-> <<>>, hangs |-> FALSE]

NoLookupOut == [called |-> FALSE, node_id |-> 0, err |-> ERR_SUCCESS, index |-> -1]

NoFail == [load |-> 0, build |-> 0, solve |-> 0]

NoMinNode == <<>>

NoHist(tracking) == [tracking |-> tracking, args |-> <<>>, last |-> <<>>]

\* The caller's variables before any call.
InitCaller ==
  /\ mode = DIJKSTRA_SHORTEST_DISTANCE
  /\ result = NoResult
  /\ heap = NoHeap
  /\ ret = ERR_SUCCESS
  /\ dist_out = NoDistOut
  /\ path_out = NoPathOut
  /\ lookup_out = NoLookupOut
  /\ min_node = NoMinNode

\* A graph loaded without an allocation failure, no solve run yet.
InitWith(loads, fails, tracking) ==
  /\ \E ld \in loads :
       /\ graph = ld.graph
       /\ mem = ld.mem
  /\ pc = "idle"
  /\ graph_ptr = "valid"
  /\ fail \in fails
  /\ hist = NoHist(tracking)
  /\ InitCaller

Init ==
  InitWith(Loaded(GeneralInputs(MaxNodes, MaxEdges, MaxLength)
                    \cup BundleInputs(MaxNodes, MaxParallel)
                    \cup TriangleInputs(MaxDetour)),
           {NoFail}, FALSE)

\* ------------------------------------------------------------------------
\* Actions
\* ------------------------------------------------------------------------
\* Mutant: the early return stores the graph's node count in the result.
ReturnEarlyWritesResult(err) ==
  /\ ret' = err
  /\ pc' = "done"
  /\ result' = [result EXCEPT !.num_nodes = graph.num_nodes]
  /\ UNCHANGED <<graph, mode, heap, dist_out, path_out, mem>>

\* A return of dijkstra_shortest_path with err before the result is written.
ReturnEarly(err) ==
  /\ ret' = err
  /\ pc' = "done"
  /\ UNCHANGED <<graph, mode, result, heap, dist_out, path_out, mem>>

\* A return with ERR_MEMORY_ALLOCATION from one of the three result mallocs;
\* m is the allocator after the frees of that branch.  No array is left.
ReturnNoArrays(m) ==
  /\ ret' = ERR_MEMORY_ALLOCATION
  /\ pc' = "done"
  /\ result' = free_dijkstra_result(result)
  /\ mem' = m
  /\ UNCHANGED <<graph, mode, heap, dist_out, path_out>>

\* Mutant: the error return also empties the graph's edge list.
ReturnFreedDropsEdges(err, res, m) ==
  /\ ret' = err
  /\ pc' = "done"
  /\ heap' = NoHeap
  /\ result' = free_dijkstra_result(res)
  /\ mem' = FreeResultArrays(m)
  /\ graph' = [graph EXCEPT !.num_edges = 0]
  /\ UNCHANGED <<mode, dist_out, path_out>>

\* A return with err after the result arrays are allocated: the result arrays
\* are released; m is the allocator after the heap (if any) is released.
ReturnFreed(err, res, m) ==
  /\ ret' = err
  /\ pc' = "done"
  /\ heap' = NoHeap
  /\ result' = free_dijkstra_result(res)
  /\ mem' = FreeResultArrays(m)
  /\ UNCHANGED <<graph, mode, dist_out, path_out>>

\* The history when a solve is called with these arguments: the outcome of
\* the solve before it is kept when that solve had the same arguments.
Called(h, source_node_id, target_node_id, m) ==
  LET args == <<source_node_id, target_node_id, m>>
  IN  IF h.tracking
        THEN [h EXCEPT !.args = args,
                       !.last = IF @ # <<>> /\ h.args = args THEN @ ELSE <<>>]
        ELSE h

\* The history when the caller leaves the solve that returned.
Left(h) ==
  IF h.tracking
    THEN [h EXCEPT !.last =
            [ret |-> ret, target_found |-> result.target_found,
             cost |-> IF ret = ERR_SUCCESS THEN get_shortest_distance(result) ELSE <<>>,
             path |-> IF ret = ERR_SUCCESS THEN get_shortest_path(result) ELSE <<>>]]
  ELSE h

\* dijkstra_shortest_path up to the first test of the while loop.
StartSolve(source_node_id, target_node_id, m) ==
  /\ pc = "idle"
  /\ hist' = Called(hist, source_node_id, target_node_id, m)
  /\ UNCHANGED <<fail, graph_ptr, lookup_out, min_node>>
  /\ IF m # DIJKSTRA_SHORTEST_DISTANCE /\ m # DIJKSTRA_FASTEST_TIME
       THEN ReturnEarly(ERR_INVALID_ARGUMENT)
     ELSE IF source_node_id = target_node_id
       THEN ReturnEarly(ERR_INVALID_ARGUMENT)
     ELSE
       LET source == find_node_index(graph, source_node_id)
           target == find_node_index(graph, target_node_id)
       IN  IF source.err # ERR_SUCCESS THEN ReturnEarly(source.err)
           ELSE IF target.err # ERR_SUCCESS THEN ReturnEarly(target.err)
           ELSE
             LET distances == Malloc([mem EXCEPT !.calls = 0, !.fail_at = fail.solve],
                                     Buf("distances"))
                 predecessors == Malloc(distances.mem, Buf("predecessors"))
                 visited == Malloc(predecessors.mem, Buf("visited"))
                 res == InitResult(graph, source.index, target.index)
                 created == create_heap(visited.mem, HeapCapacity(graph))
                 ins == insert_heap(created.heap, source.index, ToDouble(0))
             IN  IF ~distances.ok THEN ReturnNoArrays(distances.mem)
                 ELSE IF ~predecessors.ok
                   THEN ReturnNoArrays(Free(predecessors.mem, Buf("distances")))
                 ELSE IF ~visited.ok
                   THEN ReturnNoArrays(FreeAll(visited.mem,
                                               <<Buf("distances"), Buf("predecessors")>>))
                 ELSE IF created.err # ERR_SUCCESS
                   THEN ReturnFreed(created.err, res, created.mem)
                 ELSE IF ins.err # ERR_SUCCESS
                   THEN ReturnFreed(ins.err, res, free_heap(created.mem))
                 ELSE /\ result' = res
                      /\ heap' = ins.heap
                      /\ mode' = m
                      /\ pc' = "loop"
                      /\ mem' = created.mem
                      /\ UNCHANGED <<graph, ret, dist_out, path_out>>

\* Mutant: marking a node visited clears the marks of the others.
IterateForgetsVisited ==
  /\ pc = "loop"
  /\ ~is_heap_empty(heap)
  /\ UNCHANGED <<fail, graph_ptr, lookup_out, min_node, hist>>
  /\ \E ex \in {extract_min(heap)} :
       LET current_index == ex.min_node.node_index
       IN  IF ex.err # ERR_SUCCESS THEN ReturnFreed(ex.err, result, free_heap(mem))
           ELSE IF result.visited[current_index]
             THEN /\ heap' = ex.heap
                  /\ UNCHANGED <<graph, pc, mode, result, ret, dist_out, path_out, mem>>
           ELSE
             \E marked \in {[result EXCEPT !.visited =
                            [v \in DOMAIN result.visited |-> v = current_index]]} :
               IF current_index = result.target_index
                 THEN /\ result' = [marked EXCEPT !.target_found = TRUE]
                      /\ heap' = ex.heap
                      /\ pc' = "exit"
                      /\ UNCHANGED <<graph, mode, ret, dist_out, path_out, mem>>
               ELSE
                 \E adj \in {get_adjacent_edges_csr(graph, current_index)} :
                   \E st \in {RelaxEdges(graph, mode, current_index,
                                          adj.start_idx, adj.end_idx,
                                          [distances |-> marked.distances,
                                           predecessors |-> marked.predecessors,
                                           visited |-> marked.visited,
                                           heap |-> ex.heap,
                                           err |-> ERR_SUCCESS])} :
                     LET relaxed == [marked EXCEPT !.distances = st.distances,
                                                   !.predecessors = st.predecessors]
                     IN  IF adj.err # ERR_SUCCESS
                           THEN ReturnFreed(adj.err, marked, free_heap(mem))
                         ELSE IF st.err # ERR_SUCCESS
                           THEN ReturnFreed(st.err, relaxed, free_heap(mem))
                         ELSE /\ result' = relaxed
                              /\ heap' = st.heap
                              /\ UNCHANGED <<graph, pc, mode, ret, dist_out, path_out, mem>>

\* One iteration of the while loop, from extract_min to the next while test,
\* the break or an error return.
Iterate ==
  /\ pc = "loop"
  /\ ~is_heap_empty(heap)
  /\ UNCHANGED <<fail, graph_ptr, lookup_out, min_node, hist>>
  /\ \E ex \in {extract_min(heap)} :
       LET current_index == ex.min_node.node_index
       IN  IF ex.err # ERR_SUCCESS THEN ReturnFreed(ex.err, result, free_heap(mem))
           ELSE IF result.visited[current_index]
             THEN /\ heap' = ex.heap
                  /\ UNCHANGED <<graph, pc, mode, result, ret, dist_out, path_out, mem>>
           ELSE
             \E marked \in {[result EXCEPT !.visited[current_index] = TRUE]} :
               IF current_index = result.target_index
                 THEN /\ result' = [marked EXCEPT !.target_found = TRUE]
                      /\ heap' = ex.heap
                      /\ pc' = "exit"
                      /\ UNCHANGED <<graph, mode, ret, dist_out, path_out, mem>>
               ELSE
                 \E adj \in {get_adjacent_edges_csr(graph, current_index)} :
                   \E st \in {RelaxEdges(graph, mode, current_index,
                                          adj.start_idx, adj.end_idx,
                                          [distances |-> marked.distances,
                                           predecessors |-> marked.predecessors,
                                           visited |-> marked.visited,
                                           heap |-> ex.heap,
                                           err |-> ERR_SUCCESS])} :
                     LET relaxed == [marked EXCEPT !.distances = st.distances,
                                                   !.predecessors = st.predecessors]
                     IN  IF adj.err # ERR_SUCCESS
                           THEN ReturnFreed(adj.err, marked, free_heap(mem))
                         ELSE IF st.err # ERR_SUCCESS
                           THEN ReturnFreed(st.err, relaxed, free_heap(mem))
                         ELSE /\ result' = relaxed
                              /\ heap' = st.heap
                              /\ UNCHANGED <<graph, pc, mode, ret, dist_out, path_out, mem>>

\* Mutant: the solve consumes the graph, every edge one metre longer after it.
ExitLoopLengthensEdges ==
  /\ \/ pc = "loop" /\ is_heap_empty(heap)
     \/ pc = "exit"
  /\ heap' = NoHeap
  /\ mem' = free_heap(mem)
  /\ ret' = ERR_SUCCESS
  /\ pc' = "done"
  /\ graph' = [graph EXCEPT !.edges = [e \in DOMAIN graph.edges |->
                                         [graph.edges[e] EXCEPT !.length = @ + 1]]]
  /\ UNCHANGED <<mode, result, dist_out, path_out,
                 fail, graph_ptr, lookup_out, min_node, hist>>

\* Mutant: the return after the loop clears target_found.
ExitLoopForgetsTarget ==
  /\ \/ pc = "loop" /\ is_heap_empty(heap)
     \/ pc = "exit"
  /\ heap' = NoHeap
  /\ mem' = free_heap(mem)
  /\ ret' = ERR_SUCCESS
  /\ pc' = "done"
  /\ result' = [result EXCEPT !.target_found = FALSE]
  /\ UNCHANGED <<graph, mode, dist_out, path_out,
                 fail, graph_ptr, lookup_out, min_node, hist>>

\* The loop is left (empty heap or break): free_heap and return ERR_SUCCESS.
ExitLoop ==
  /\ \/ pc = "loop" /\ is_heap_empty(heap)
     \/ pc = "exit"
  /\ heap' = NoHeap
  /\ mem' = free_heap(mem)
  /\ ret' = ERR_SUCCESS
  /\ pc' = "done"
  /\ UNCHANGED <<graph, mode, result, dist_out, path_out,
                 fail, graph_ptr, lookup_out, min_node, hist>>

\* The caller asks for the cost of a result a successful solve produced.
GetShortestDistance ==
  /\ pc = "done"
  /\ ret = ERR_SUCCESS
  /\ LET d == get_shortest_distance(result)
     IN  dist_out' = [called |-> TRUE, err |-> d.err, distance |-> d.distance]
  /\ UNCHANGED <<graph, pc, mode, result, heap, ret, path_out,
                 mem, fail, graph_ptr, lookup_out, min_node, hist>>

\* The caller asks for the path of a result a successful solve produced.
GetShortestPath ==
  /\ pc = "done"
  /\ ret = ERR_SUCCESS
  /\ LET p == get_shortest_path(result)
     IN  path_out' = [called |-> TRUE, err |-> p.err, path_length |-> p.path_length,
                      path |-> p.path, hangs |-> p.hangs]
  /\ UNCHANGED <<graph, pc, mode, result, heap, ret, dist_out,
                 mem, fail, graph_ptr, lookup_out, min_node, hist>>

\* The caller releases the result (and the path) of a successful solve and
\* is free to solve again, with a DijkstraResult of its own as before.
FreeResult ==
  /\ pc = "done"
  /\ ret = ERR_SUCCESS
  /\ pc' = "idle"
  /\ result' = NoResult
  /\ mem' = FreeResultArrays(mem)
  /\ mode' = DIJKSTRA_SHORTEST_DISTANCE
  /\ dist_out' = NoDistOut
  /\ path_out' = NoPathOut
  /\ hist' = Left(hist)
  /\ UNCHANGED <<graph, heap, ret, fail, graph_ptr, lookup_out, min_node>>

Solve ==
  /\ pc = "idle"
  /\ \E s \in SolveIds(graph), t \in SolveIds(graph), m \in ModeInputs :
       StartSolve(s, t, m)

Next ==
  \/ Solve
  \/ Iterate
  \/ ExitLoop
  \/ GetShortestDistance
  \/ GetShortestPath
  \/ FreeResult

Spec == Init /\ [][Next]_vars

\* ------------------------------------------------------------------------
\* Loading, building and looking up
\* ------------------------------------------------------------------------
\* Files for the loader: up to max_nodes node records with ids among the
\* first two NodeIds (so ids can repeat) and up to max_edges edge records
\* with endpoints among these ids and AbsentId (self-loops included), one-way
\* or not, of length 1 and one record of length 0; either file can be
\* absent, without header, or one record short of the count in its header,
\* and a header can hold the count 0.
LoadEdgeRecords ==
  {[from_node |-> a, to_node |-> b, length |-> 1, speed_limit |-> 30, one_way |-> o] :
     a \in {NodeId(0), NodeId(1), AbsentId}, b \in {NodeId(0), NodeId(1), AbsentId},
     o \in {0, 1}}
  \cup {[from_node |-> NodeId(0), to_node |-> NodeId(1), length |-> 0,
         speed_limit |-> 30, one_way |-> 0]}

FullInputs(max_nodes, max_edges) ==
  UNION {UNION {{<<nodes, edges>> :
                   nodes \in [0..(n - 1) -> {[node_id |-> NodeId(0)], [node_id |-> NodeId(1)]}],
                   edges \in [0..(m - 1) -> LoadEdgeRecords]} :
                m \in 0..max_edges} :
         n \in 0..max_nodes}

\* The array with its last record missing.
Short(array) == [i \in 0..(Cardinality(DOMAIN array) - 2) |-> array[i]]

LoadFiles(max_nodes, max_edges) ==
  LET full == {FilesOf(in) : in \in FullInputs(max_nodes, max_edges)}
  IN  full
      \cup {[f EXCEPT !.nodes = Short(f.nodes)] : f \in {x \in full : x.num_nodes > 0}}
      \cup {[f EXCEPT !.edges = Short(f.edges)] : f \in {x \in full : x.num_edges > 0}}
      \cup {[f EXCEPT !.nodes_file = k] : f \in full, k \in {"absent", "empty"}}
      \cup {[f EXCEPT !.edges_file = k] : f \in full, k \in {"absent", "empty"}}

\* A Graph as a caller of build_csr_representation can hold it: created,
\* nodes read and indexed, edges read, no endpoint looked at.
Filled(in) ==
  LET created == create_graph(NewMem(0, {}), Cardinality(DOMAIN in[1]),
                              Cardinality(DOMAIN in[2]))
      n == load_nodes_from_binary(created.mem, created.graph, in[1])
  IN  [err |-> IF created.err # ERR_SUCCESS THEN created.err ELSE n.err,
       graph |-> [n.graph EXCEPT !.edges = in[2]],
       mem |-> n.mem]

FilledGraphs(inputs) ==
  {f \in {Filled(in) : in \in {x \in inputs : Cardinality(DOMAIN x[1]) > 0
                                              /\ Cardinality(DOMAIN x[2]) > 0}} :
     f.err = ERR_SUCCESS}

\* The allocation calls one load can make, and one more.
LoadAllocs(max_nodes) == 9 + max_nodes

\* The allocation calls dijkstra_shortest_path makes.
SolveAllocs == 5

\* No allocation fails, or one of a load, or one of a solve.
FailInputs(max_nodes) ==
  {[load |-> k, build |-> 0, solve |-> 0] : k \in 0..LoadAllocs(max_nodes)}
  \cup {[load |-> 0, build |-> 0, solve |-> j] : j \in 1..SolveAllocs}

\* Before any load, as main holds its Graph pointer; or with a filled Graph in
\* hand; or with a graph of the bundle family loaded, where a solve can fail
\* after its allocations.
InitLoad ==
  \/ /\ InitCaller
     /\ hist = NoHist(FALSE)
     /\ pc = "unloaded"
     /\ graph = NoGraph
     /\ mem = NewMem(0, {})
     /\ graph_ptr = "NULL"
     /\ fail \in FailInputs(MaxLoadNodes)
  \/ /\ InitCaller
     /\ hist = NoHist(FALSE)
     /\ pc = "filled"
     /\ \E f \in FilledGraphs(FullInputs(MaxLoadNodes, MaxLoadEdges)) :
          /\ graph = f.graph
          /\ mem = f.mem
     /\ graph_ptr = "valid"
     /\ fail \in {[load |-> 0, build |-> b, solve |-> 0] : b \in 0..1}
  \/ InitWith(Loaded(BundleInputs(2, MaxRepeatParallel)),
              {[load |-> 0, build |-> 0, solve |-> j] : j \in 0..SolveAllocs},
              FALSE)

\* load_graph_from_binary(&graph, ...) on some files.
LoadGraph ==
  /\ pc = "unloaded"
  /\ \E files \in LoadFiles(MaxLoadNodes, MaxLoadEdges) :
       LET ld == load_graph_from_binary(NewMem(fail.load, {}), files)
       IN  /\ ret' = ld.err
           /\ graph' = ld.graph
           /\ mem' = ld.mem
           /\ graph_ptr' = IF ld.ptr = "unchanged" THEN graph_ptr ELSE ld.ptr
           /\ pc' = IF ld.err = ERR_SUCCESS THEN "idle" ELSE "failed"
  /\ UNCHANGED <<mode, result, heap, dist_out, path_out, fail, lookup_out, min_node, hist>>

\* build_csr_representation(graph) on the filled Graph.
BuildCsr ==
  /\ pc = "filled"
  /\ LET built == build_csr_representation([mem EXCEPT !.calls = 0,
                                                       !.fail_at = fail.build],
                                           graph)
     IN  /\ ret' = built.err
         /\ graph' = built.graph
         /\ mem' = built.mem
  /\ pc' = "built"
  /\ UNCHANGED <<mode, result, heap, dist_out, path_out, fail, graph_ptr,
                 lookup_out, min_node, hist>>

\* find_node_index(graph, node_id, &index) by the caller.
FindNodeIndex(node_id) ==
  /\ pc = "built"
  /\ LET found == find_node_index(graph, node_id)
     IN  /\ lookup_out' = [called |-> TRUE, node_id |-> node_id, err |-> found.err,
                           index |-> found.index]
         /\ graph' = [graph EXCEPT !.node_hash = found.node_hash]
  /\ UNCHANGED <<pc, mode, result, heap, ret, dist_out, path_out, mem, fail,
                 graph_ptr, hist, min_node>>

Lookup ==
  /\ pc = "built"
  /\ \E node_id \in SolveIds(graph) : FindNodeIndex(node_id)

\* The caller gives up the solve that returned an error and is free to solve
\* again.
Retry ==
  /\ pc = "done"
  /\ ret # ERR_SUCCESS
  /\ pc' = "idle"
  /\ result' = NoResult
  /\ hist' = Left(hist)
  /\ UNCHANGED <<graph, mode, heap, ret, dist_out, path_out, mem, fail,
                 graph_ptr, lookup_out, min_node>>

NextLoad ==
  \/ LoadGraph
  \/ BuildCsr
  \/ Lookup
  \/ Solve
  \/ Iterate
  \/ ExitLoop
  \/ GetShortestDistance
  \/ GetShortestPath
  \/ FreeResult
  \/ Retry

SpecLoad == InitLoad /\ [][NextLoad]_vars

\* Solve after solve on one graph, the history kept.
InitRepeat ==
  InitWith(Loaded(TriangleInputs(MaxRepeatDetour)
                    \cup BundleInputs(2, MaxRepeatParallel)),
           {NoFail}, TRUE)

NextRepeat ==
  \/ Next
  \/ Retry

SpecRepeat == InitRepeat /\ [][NextRepeat]_vars

\* The four-node scenario: nodes 1, 2, 3, 4 and the edges 1-2 (100, both
\* ways), 2->3 (50, one-way), 1-4 (200, both ways), 4-3 (10, both ways), each
\* at speed 30.
ScenarioEdge(from, to, length, one_way) ==
  [from_node |-> from, to_node |-> to, length |-> length,
   speed_limit |-> 30, one_way |-> one_way]

ScenarioInput ==
  <<[i \in 0..3 |-> [node_id |-> i + 1]],
    (0 :> ScenarioEdge(1, 2, 100, 0) @@ 1 :> ScenarioEdge(2, 3, 50, 1)
     @@ 2 :> ScenarioEdge(1, 4, 200, 0) @@ 3 :> ScenarioEdge(4, 3, 10, 0))>>

InitScenario == InitWith(Loaded({ScenarioInput}), {NoFail}, FALSE)

SpecScenario == InitScenario /\ [][Next]_vars

\* ------------------------------------------------------------------------
\* Reference definitions, independent of the index, the CSR arrays and the
\* heap: what the edge array itself says
\* ------------------------------------------------------------------------
IndexOfId(g, id) == CHOOSE i \in DOMAIN g.nodes : g.nodes[i].node_id = id

\* Edge e can be traversed from node index u to node index v.
Traversable(g, e, u, v) ==
  LET a == IndexOfId(g, g.edges[e].from_node)
      b == IndexOfId(g, g.edges[e].to_node)
  IN  \/ a = u /\ b = v
      \/ g.edges[e].one_way = 0 /\ b = u /\ a = v

\* The cost of an edge: metres, or minutes (length / 1000) / speed * 60, in
\* fixed point; a speed of 0 gives no finite time.
RefCost(edge, m) ==
  IF m = DIJKSTRA_FASTEST_TIME
    THEN IF edge.speed_limit = 0 THEN INFINITY_DBL
         ELSE (edge.length * 60) \div edge.speed_limit
    ELSE edge.length * 1000

Min(S) == CHOOSE x \in S : \A y \in S : x <= y

\* Bellman-Ford rounds over the edge array.
RECURSIVE RefRelax(_, _, _, _)
RefRelax(g, m, d, rounds) ==
  IF rounds = 0 THEN d
  ELSE RefRelax(g, m,
         [v \in DOMAIN d |->
            Min({d[v]} \cup
                {d[x[1]] + RefCost(g.edges[x[2]], m) :
                   x \in {y \in (DOMAIN d) \X (DOMAIN g.edges) :
                            /\ Traversable(g, y[2], y[1], v)
                            /\ d[y[1]] < INFINITY_DBL
                            /\ RefCost(g.edges[y[2]], m) < INFINITY_DBL}})],
         rounds - 1)

\* The true shortest cost from node index s to every node index.
RefDist(g, m, s) ==
  RefRelax(g, m,
           [v \in DOMAIN g.nodes |-> IF v = s THEN 0 ELSE INFINITY_DBL],
           g.num_nodes - 1)

\* t can be reached from s along traversable edges.
Reachable(g, s, t) == RefDist(g, DIJKSTRA_SHORTEST_DISTANCE, s)[t] < INFINITY_DBL

\* t can be reached from s along traversable edges of positive speed.
ReachableAtSpeed(g, s, t) == RefDist(g, DIJKSTRA_FASTEST_TIME, s)[t] < INFINITY_DBL

AllSpeedsPositive(g) == \A e \in DOMAIN g.edges : g.edges[e].speed_limit > 0

\* The sums of per-edge costs the node sequence path[i..] can have, one
\* traversable finite-cost edge per hop.
RECURSIVE PathSums(_, _, _, _)
PathSums(g, m, path, i) ==
  IF i >= Cardinality(DOMAIN path) - 1 THEN {0}
  ELSE {RefCost(g.edges[e], m) + r :
          e \in {f \in DOMAIN g.edges :
                   /\ Traversable(g, f, path[i], path[i + 1])
                   /\ RefCost(g.edges[f], m) < INFINITY_DBL},
          r \in PathSums(g, m, path, i + 1)}

\* dijkstra_shortest_path has returned, having resolved both ids.
Returned == pc = "done" /\ result.source_index >= 0

\* dijkstra_shortest_path has returned ERR_SUCCESS.
Solved == pc = "done" /\ ret = ERR_SUCCESS

\* The solver's arrays are live: a solve is running or has succeeded.
Live == pc \in {"loop", "exit"} \/ Solved

\* The node ids of a path of node indices.
PathIds(path) == [i \in DOMAIN path |-> graph.nodes[path[i]].node_id]

\* ------------------------------------------------------------------------
\* Claims
\* ------------------------------------------------------------------------

\* C1: whenever the target is another node than the source and reachable
\* from it (and, in time mode, every edge has a positive speed), the solve
\* returns ERR_SUCCESS with target_found = TRUE and get_shortest_distance
\* gives a finite cost >= 0.
C1_ReachableIsFound ==
  (/\ Returned
   /\ result.source_index # result.target_index
   /\ Reachable(graph, result.source_index, result.target_index)
   /\ (mode = DIJKSTRA_SHORTEST_DISTANCE \/ AllSpeedsPositive(graph)))
  => /\ ret = ERR_SUCCESS
     /\ result.target_found
     /\ get_shortest_distance(result).distance >= 0
     /\ get_shortest_distance(result).distance < INFINITY_DBL

\* C2: after a successful solve that found the target, every node on the path
\* get_shortest_path returned carries its true shortest cost from the source.
C2_PathDistancesOptimal ==
  (Solved /\ result.target_found /\ path_out.called /\ path_out.err = ERR_SUCCESS)
  => \A i \in DOMAIN path_out.path :
       result.distances[path_out.path[i]] =
         RefDist(graph, mode, result.source_index)[path_out.path[i]]

\* C2 witness: a three-node path has been returned where a direct edge from
\* the source to the target exists as well.
C2_Witness ==
  /\ Solved /\ result.target_found /\ path_out.called
  /\ path_out.path_length = 3
  /\ \E e \in DOMAIN graph.edges :
       Traversable(graph, e, result.source_index, result.target_index)

\* C3: consecutive nodes of the returned path are joined by an edge
\* traversable in that direction, and the per-edge costs along the path sum
\* to the cost get_shortest_distance returned.
C3_PathIsValid ==
  (Solved /\ path_out.called /\ path_out.err = ERR_SUCCESS /\ dist_out.called)
  => /\ \A i \in 0..(path_out.path_length - 2) :
          \E e \in DOMAIN graph.edges :
            Traversable(graph, e, path_out.path[i], path_out.path[i + 1])
     /\ dist_out.distance \in PathSums(graph, mode, path_out.path, 0)

\* C3 witness: a time-mode path of two or more edges and its cost have been
\* returned.
C3_Witness ==
  /\ Solved /\ path_out.called /\ path_out.err = ERR_SUCCESS /\ dist_out.called
  /\ mode = DIJKSTRA_FASTEST_TIME
  /\ path_out.path_length >= 3
  /\ dist_out.distance > 0

\* C4: whenever the target is not reachable from the source, the solve
\* returns ERR_SUCCESS with target_found = FALSE, get_shortest_distance
\* gives the infinity sentinel and get_shortest_path returns ERR_NOT_FOUND
\* with path_length 0.  Stated for distance mode and for time mode over
\* positive speeds, where no edge can make the solve fail with
\* ERR_INVALID_DATA.
C4_UnreachableIsNotFound ==
  (/\ Returned
   /\ ~Reachable(graph, result.source_index, result.target_index)
   /\ (mode = DIJKSTRA_SHORTEST_DISTANCE \/ AllSpeedsPositive(graph)))
  => /\ ret = ERR_SUCCESS
     /\ ~result.target_found
     /\ get_shortest_distance(result).distance = INFINITY_DBL
     /\ get_shortest_path(result).err = ERR_NOT_FOUND
     /\ get_shortest_path(result).path_length = 0

\* C5: a one-way edge is never traversed against its direction (every
\* predecessor link follows a traversable edge, and a target that only
\* wrong-way edges connect is not found), while an edge that is not one-way
\* is usable from either endpoint at the same cost.
C5_OneWayEnforced ==
  /\ Live =>
       \A v \in DOMAIN result.predecessors :
         result.predecessors[v] # -1 =>
           \E e \in DOMAIN graph.edges :
             /\ Traversable(graph, e, result.predecessors[v], v)
             /\ RefCost(graph.edges[e], mode) < INFINITY_DBL
             /\ result.distances[v] =
                  result.distances[result.predecessors[v]] + RefCost(graph.edges[e], mode)
  /\ (Returned /\ ~Reachable(graph, result.source_index, result.target_index))
       => ~result.target_found
  /\ Live =>
       \A e \in DOMAIN graph.edges :
         graph.edges[e].one_way = 0 =>
           \A u \in DOMAIN result.visited, w \in DOMAIN result.visited :
             (/\ {u, w} = {IndexOfId(graph, graph.edges[e].from_node),
                           IndexOfId(graph, graph.edges[e].to_node)}
              /\ u # w
              /\ result.visited[u]
              /\ u # result.target_index
              /\ RefCost(graph.edges[e], mode) < INFINITY_DBL)
             => result.distances[w] <= result.distances[u] + RefCost(graph.edges[e], mode)

\* C5 witness: a solve ended without finding the target although a one-way
\* edge leads from the target's side, after an edge that is not one-way was
\* traversed from its to endpoint to its from endpoint.
C5_Witness ==
  /\ Solved /\ ~result.target_found
  /\ \E e \in DOMAIN graph.edges :
       /\ graph.edges[e].one_way = 1
       /\ IndexOfId(graph, graph.edges[e].from_node) = result.target_index
       /\ result.visited[IndexOfId(graph, graph.edges[e].to_node)]
  /\ \E e \in DOMAIN graph.edges :
       /\ graph.edges[e].one_way = 0
       /\ result.predecessors[IndexOfId(graph, graph.edges[e].from_node)] =
            IndexOfId(graph, graph.edges[e].to_node)

\* C6: when the target is reachable but every path to it holds an edge of
\* speed 0, time mode returns ERR_INVALID_DATA and distance mode returns
\* ERR_SUCCESS with target_found = TRUE.
C6_ZeroSpeedFailsTimeOnly ==
  (/\ Returned
   /\ Reachable(graph, result.source_index, result.target_index)
   /\ ~ReachableAtSpeed(graph, result.source_index, result.target_index))
  => /\ mode = DIJKSTRA_FASTEST_TIME => ret = ERR_INVALID_DATA
     /\ mode = DIJKSTRA_SHORTEST_DISTANCE => (ret = ERR_SUCCESS /\ result.target_found)

\* C7: no insert into the heap is rejected as heap-full, so the solve never
\* returns ERR_MEMORY_ALLOCATION (the model lets every malloc succeed, so a
\* full heap is the only source of that code).
C7_HeapNeverFull == pc = "done" => ret # ERR_MEMORY_ALLOCATION

\* C8: on the four-node scenario graph, distance-mode solve(1, 3) gives cost
\* 150 and the path of nodes 1, 2, 3, and distance-mode solve(3, 2) finds the
\* target with cost 310 and the path of nodes 3, 4, 1, 2 (the returned array
\* holds node indices; the ids are those of the nodes it names).
C8_Scenario ==
  (Returned /\ mode = DIJKSTRA_SHORTEST_DISTANCE)
  => /\ (/\ graph.nodes[result.source_index].node_id = 1
         /\ graph.nodes[result.target_index].node_id = 3)
        => /\ ret = ERR_SUCCESS
           /\ result.target_found
           /\ dist_out.called => dist_out.distance = ToDouble(150)
           /\ path_out.called =>
                (path_out.err = ERR_SUCCESS /\ PathIds(path_out.path) = [i \in 0..2 |-> i + 1])
     /\ (/\ graph.nodes[result.source_index].node_id = 3
         /\ graph.nodes[result.target_index].node_id = 2)
        => /\ ret = ERR_SUCCESS
           /\ result.target_found
           /\ dist_out.called => dist_out.distance = ToDouble(310)
           /\ path_out.called =>
                /\ path_out.err = ERR_SUCCESS
                /\ path_out.path_length = 4
                /\ PathIds(path_out.path) =
                     (0 :> 3 @@ 1 :> 4 @@ 2 :> 1 @@ 3 :> 2)

\* C8 witness: solve(3, 2) in distance mode has returned and both its cost
\* and its path have been asked for.
C8_Witness ==
  /\ Solved /\ mode = DIJKSTRA_SHORTEST_DISTANCE
  /\ graph.nodes[result.source_index].node_id = 3
  /\ graph.nodes[result.target_index].node_id = 2
  /\ dist_out.called /\ path_out.called

\* C9: after a successful solve that found the target, get_shortest_path
\* does not return ERR_NOT_FOUND (nor loop): the array runs from the source to
\* the target and each entry is the predecessor of the next.
C9_PathBacktracks ==
  (Solved /\ result.target_found)
  => /\ get_shortest_path(result).err = ERR_SUCCESS
     /\ ~get_shortest_path(result).hangs
     /\ path_out.called =>
          /\ path_out.err = ERR_SUCCESS
          /\ path_out.path_length >= 2
          /\ DOMAIN path_out.path = 0..(path_out.path_length - 1)
          /\ path_out.path[0] = result.source_index
          /\ path_out.path[path_out.path_length - 1] = result.target_index
          /\ \A i \in 0..(path_out.path_length - 2) :
               result.predecessors[path_out.path[i + 1]] = path_out.path[i]

\* C9 witness: a path of three nodes has been returned.
C9_Witness ==
  /\ Solved /\ result.target_found
  /\ path_out.called /\ path_out.err = ERR_SUCCESS
  /\ path_out.path_length = 3

\* C10: after a successful solve, distances[target_index] is the infinity
\* sentinel exactly when target_found = FALSE, and get_shortest_distance
\* returns exactly distances[target_index].
C10_CostIsTargetDistance ==
  Solved
  => /\ (result.distances[result.target_index] = INFINITY_DBL) <=> ~result.target_found
     /\ dist_out.called =>
          (dist_out.err = ERR_SUCCESS
           /\ dist_out.distance = result.distances[result.target_index])

\* C10 witness: the cost of a solve that did not find its target has been
\* asked for, other nodes having been reached.
C10_Witness ==
  /\ Solved /\ ~result.target_found /\ dist_out.called
  /\ \E v \in DOMAIN result.predecessors : result.predecessors[v] # -1

C12_GraphUnchanged ==
  [][(Solve \/ Iterate \/ ExitLoop \/ GetShortestDistance \/ GetShortestPath)
       => graph' = graph]_vars

\* C12 witness: a solve has returned an error after working on the graph, and
\* the graph still has its edges.
C12_Witness ==
  /\ pc = "done" /\ ret # ERR_SUCCESS
  /\ result.source_index >= 0
  /\ graph.num_edges >= 2

\* The node array holds node_id.
Present(g, node_id) == \E i \in DOMAIN g.nodes : g.nodes[i].node_id = node_id

\* The call has returned err with the result, the heap and the allocator as
\* they were.
RejectedWith(err) ==
  /\ pc' = "done"
  /\ ret' = err
  /\ result' = result
  /\ heap' = heap
  /\ mem' = mem

\* C13: dijkstra_shortest_path returns ERR_INVALID_ARGUMENT when the mode is
\* neither of the two modes or the source id equals the target id (whether
\* or not that id is in the graph), and otherwise ERR_NOT_FOUND when the
\* source id or the target id is not in the graph; in each of these cases
\* nothing has been allocated and no field of the result has been written.
\* (hist'.args holds the arguments of the call.)
C13_ArgumentChecks ==
  [][Solve =>
       LET s == hist'.args[1]
           t == hist'.args[2]
           m == hist'.args[3]
       IN  IF m \notin {DIJKSTRA_SHORTEST_DISTANCE, DIJKSTRA_FASTEST_TIME} \/ s = t
             THEN RejectedWith(ERR_INVALID_ARGUMENT)
           ELSE IF ~Present(graph, s) \/ ~Present(graph, t)
             THEN RejectedWith(ERR_NOT_FOUND)
           ELSE pc' = "done" => ret' \notin {ERR_INVALID_ARGUMENT, ERR_NOT_FOUND}]_vars

\* C13 witness: the solve from an id to itself, the id not in the graph, has
\* been rejected as an invalid argument, nothing allocated for it.
C13_Witness ==
  /\ pc = "done"
  /\ hist.args = <<AbsentId, AbsentId, DIJKSTRA_SHORTEST_DISTANCE>>
  /\ ret = ERR_INVALID_ARGUMENT
  /\ result = NoResult
  /\ Buf("distances") \notin mem.live

\* The buffers of a call of dijkstra_shortest_path.
SolverBufs ==
  {Buf("distances"), Buf("predecessors"), Buf("visited"), Buf("heap"),
   Buf("heap_nodes")}

\* The buffers of the Graph g.
GraphBufs(g) ==
  {Buf("graph"), Buf("nodes"), Buf("edges"), Buf("adj_offsets"), Buf("adj_indices"),
   Buf("node_hash"), Buf("buckets")}
  \cup UNION {{Entry(b, k - 1) : k \in 1..Len(g.node_hash.buckets[b])} :
                b \in DOMAIN g.node_hash.buckets}

\* C14: when dijkstra_shortest_path, build_csr_representation or create_graph
\* returns an error, at an allocation or at a later step, every buffer the
\* call allocated has been released, none of them twice, and no other buffer
\* has been released.
C14_ErrorsReleaseBuffers ==
  /\ (pc = "done" /\ ret # ERR_SUCCESS) =>
       (mem.bad = {} /\ mem.live \cap SolverBufs = {}
        /\ mem.live = GraphBufs(graph))
  /\ (pc = "built" /\ ret # ERR_SUCCESS) =>
       (mem.bad = {} /\ Buf("degree") \notin mem.live
        /\ mem.live = GraphBufs(graph))
  /\ (pc = "failed" /\ graph = NoGraph
      /\ ret \in {ERR_MEMORY_ALLOCATION, ERR_INVALID_ARGUMENT}) =>
       (mem.bad = {} /\ mem.live = {})

\* C14 witness: a solve has failed after all its allocations, its heap full.
C14_Witness ==
  /\ pc = "done" /\ ret = ERR_MEMORY_ALLOCATION
  /\ fail.solve = 0
  /\ mem.calls = SolveAllocs

\* C15: whenever load_graph_from_binary returns an error, the caller's Graph
\* pointer is NULL afterwards, whichever step of the load failed.
C15_FailedLoadLeavesNull ==
  pc = "failed" => graph_ptr = "NULL"

\* build_csr_representation has returned ERR_SUCCESS for the graph.
Built ==
  \/ pc = "built" /\ ret = ERR_SUCCESS
  \/ pc \in {"idle", "loop", "exit", "done"}

\* The positions of the adjacency range of node index v.
Range(g, v) == g.adj_offsets[v]..(g.adj_offsets[v + 1] - 1)

\* How often edge index e stands in the adjacency range of node index v.
Listed(g, e, v) == Cardinality({k \in Range(g, v) : g.adj_indices[k] = e})

\* How often the edge array puts edge e at the node with the id of v: once
\* as its from endpoint, once more as the to endpoint of a two-way edge.
Incident(g, e, v) ==
  (IF g.edges[e].from_node = g.nodes[v].node_id THEN 1 ELSE 0)
  + (IF g.edges[e].one_way = 0 /\ g.edges[e].to_node = g.nodes[v].node_id
       THEN 1 ELSE 0)

RECURSIVE Sum(_, _)
Sum(f, S) ==
  IF S = {} THEN 0
  ELSE LET x == CHOOSE y \in S : TRUE IN f[x] + Sum(f, S \ {x})

DistinctIds(g) ==
  \A i, j \in DOMAIN g.nodes : g.nodes[i].node_id = g.nodes[j].node_id => i = j

TwoWay(g) == {e \in DOMAIN g.edges : g.edges[e].one_way = 0}

\* C16: after a successful build_csr_representation, adj_offsets[0] = 0,
\* adj_offsets is non-decreasing, adj_offsets[N] = M + (number of two-way
\* edges) <= 2M, every edge is listed once and a two-way edge twice, only in
\* ranges of nodes that have the id of the endpoint; with distinct node ids
\* the range of v holds, as a multiset, exactly the edges with from endpoint
\* v and the two-way edges with to endpoint v.
C16_CsrHoldsIncidentEdges ==
  Built =>
    LET N == graph.num_nodes
        M == graph.num_edges
    IN  /\ graph.adj_offsets[0] = 0
        /\ \A v \in 0..(N - 1) : graph.adj_offsets[v] <= graph.adj_offsets[v + 1]
        /\ graph.adj_offsets[N] = M + Cardinality(TwoWay(graph))
        /\ graph.adj_offsets[N] <= 2 * M
        /\ \A e \in 0..(M - 1) :
             /\ Sum([v \in 0..(N - 1) |-> Listed(graph, e, v)], 0..(N - 1))
                  = IF e \in TwoWay(graph) THEN 2 ELSE 1
             /\ \A v \in 0..(N - 1) : Listed(graph, e, v) <= Incident(graph, e, v)
        /\ DistinctIds(graph) =>
             \A e \in 0..(M - 1), v \in 0..(N - 1) :
               Listed(graph, e, v) = Incident(graph, e, v)

\* C16 witness: the CSR of two nodes with distinct ids, a two-way edge
\* between them and a one-way edge has been built.
C16_Witness ==
  /\ pc = "built" /\ ret = ERR_SUCCESS
  /\ DistinctIds(graph) /\ graph.num_nodes = 2 /\ graph.num_edges = 2
  /\ graph.adj_offsets[2] = 3
  /\ graph.adj_offsets[1] = 1

\* C17: within the adjacency range of every node the edge indices stand in
\* the order of the edge array (non-decreasing).
C17_RangesInEdgeOrder ==
  Built =>
    \A v \in 0..(graph.num_nodes - 1) :
      \A k \in Range(graph, v) :
        (k + 1) \in Range(graph, v) => graph.adj_indices[k] <= graph.adj_indices[k + 1]

\* C17 witness: the range of one node holds a two-way self-loop (its index
\* twice) and after it another edge.
C17_Witness ==
  /\ pc = "built" /\ ret = ERR_SUCCESS
  /\ \E v \in 0..(graph.num_nodes - 1) :
       /\ graph.adj_offsets[v + 1] - graph.adj_offsets[v] = 3
       /\ graph.adj_indices[graph.adj_offsets[v]] = 0
       /\ graph.adj_indices[graph.adj_offsets[v] + 1] = 0
       /\ graph.adj_indices[graph.adj_offsets[v] + 2] = 1

\* The ids that have an entry in the identifier index.
Indexed(g) ==
  UNION {{g.node_hash.buckets[b][k].node_id : k \in 1..Len(g.node_hash.buckets[b])} :
           b \in DOMAIN g.node_hash.buckets}

\* The edges with an endpoint that has no entry in the identifier index.
Unresolved(g) ==
  {e \in DOMAIN g.edges :
     g.edges[e].from_node \notin Indexed(g) \/ g.edges[e].to_node \notin Indexed(g)}

\* C18 as stated: build_csr_representation returns ERR_NOT_FOUND if and only
\* if an endpoint of some edge is absent from the identifier index, and no
\* graph that load_graph_from_binary has constructed holds such an edge.
C18_NotFoundIffUnresolved ==
  /\ pc = "built" => (ret = ERR_NOT_FOUND <=> Unresolved(graph) # {})
  /\ pc \in {"idle", "loop", "exit", "done"} => Unresolved(graph) = {}

\* C18 amended: build_csr_representation returns ERR_MEMORY_ALLOCATION when
\* its degree array cannot be allocated, whatever the edges are; otherwise it
\* returns ERR_NOT_FOUND if and only if an endpoint of some edge is absent
\* from the identifier index, and ERR_SUCCESS if none is; no graph that
\* load_graph_from_binary has constructed holds such an edge.
C18_NotFoundIffUnresolvedAndAllocated ==
  /\ pc = "built" =>
       /\ ret = ERR_MEMORY_ALLOCATION <=> fail.build = 1
       /\ ret = ERR_NOT_FOUND <=> (fail.build # 1 /\ Unresolved(graph) # {})
       /\ ret = ERR_SUCCESS <=> (fail.build # 1 /\ Unresolved(graph) = {})
  /\ pc \in {"idle", "loop", "exit", "done"} => Unresolved(graph) = {}

\* C18 witness: the build has returned ERR_NOT_FOUND for an edge array whose
\* first edge resolves and whose second edge has an absent to endpoint.
C18_Witness ==
  /\ pc = "built" /\ ret = ERR_NOT_FOUND
  /\ graph.num_edges = 2
  /\ Unresolved(graph) = {1}
  /\ graph.edges[1].from_node \in Indexed(graph)
  /\ graph.edges[1].to_node = AbsentId

\* The number of entries the identifier index holds for node_id.
EntryCount(g, node_id) ==
  Sum([b \in DOMAIN g.node_hash.buckets |->
         Cardinality({k \in 1..Len(g.node_hash.buckets[b]) :
                        g.node_hash.buckets[b][k].node_id = node_id})],
      DOMAIN g.node_hash.buckets)

\* C19: once the loader has inserted every position of the node array, every
\* id of the array has exactly one entry in the identifier index and
\* find_node_index of the id at position i returns i.
C19_OneEntryPerId ==
  pc \in {"filled", "built", "idle", "loop", "exit", "done"} =>
    \A i \in DOMAIN graph.nodes :
      /\ EntryCount(graph, graph.nodes[i].node_id) = 1
      /\ find_node_index(graph, graph.nodes[i].node_id).err = ERR_SUCCESS
      /\ find_node_index(graph, graph.nodes[i].node_id).index = i

\* C20: a lookup of an id that was never inserted returns ERR_NOT_FOUND, and
\* every lookup, found or not, leaves the identifier index as it was (entry
\* count, buckets and chains) and allocates nothing.
C20_LookupLeavesIndex ==
  [][Lookup =>
       /\ graph' = graph
       /\ mem' = mem
       /\ lookup_out'.node_id \notin Indexed(graph) =>
            lookup_out'.err = ERR_NOT_FOUND
       /\ lookup_out'.node_id \in Indexed(graph) =>
            lookup_out'.err = ERR_SUCCESS]_vars

\* C20 witness: an id that was never inserted has been looked up in an index
\* of two entries, and the lookup returned ERR_NOT_FOUND.
C20_Witness ==
  /\ pc = "built"
  /\ lookup_out.called
  /\ lookup_out.node_id = AbsentId
  /\ lookup_out.err = ERR_NOT_FOUND
  /\ graph.node_hash.count = 2
  /\ AbsentId \notin Indexed(graph)

\* ------------------------------------------------------------------------
\* create_graph on its own
\* ------------------------------------------------------------------------
\* The node counts create_graph is called with: none, small ones, and the
\* counts around HASH_TABLE_SIZE / 2 and HASH_TABLE_SIZE.
CreateNodeCounts ==
  {0, 1, 2, HASH_TABLE_SIZE \div 2, (HASH_TABLE_SIZE \div 2) + 1,
   HASH_TABLE_SIZE, HASH_TABLE_SIZE + 1}

\* The allocation calls create_graph makes.
CreateAllocs == 7

InitCreate ==
  /\ InitCaller
  /\ hist = NoHist(FALSE)
  /\ pc = "uncreated"
  /\ graph = NoGraph
  /\ mem = NewMem(0, {})
  /\ graph_ptr = "NULL"
  /\ fail \in {[load |-> k, build |-> 0, solve |-> 0] : k \in 0..CreateAllocs}

\* create_graph(&graph, num_nodes, num_edges), as the loader calls it.
CreateGraph ==
  /\ pc = "uncreated"
  /\ \E num_nodes \in CreateNodeCounts, num_edges \in 0..MaxCreateEdges :
       LET created == create_graph(NewMem(fail.load, {}), num_nodes, num_edges)
       IN  /\ ret' = created.err
           /\ graph' = created.graph
           /\ mem' = created.mem
           /\ graph_ptr' = IF created.ptr = "unchanged" THEN graph_ptr ELSE created.ptr
           /\ pc' = IF created.err = ERR_SUCCESS THEN "created" ELSE "failed"
  /\ UNCHANGED <<mode, result, heap, dist_out, path_out, fail, lookup_out, min_node, hist>>

\* free_graph(graph) on the created Graph.
FreeGraph ==
  /\ pc = "created"
  /\ mem' = free_graph(mem, graph)
  /\ graph' = NoGraph
  /\ graph_ptr' = "dangling"
  /\ pc' = "freed"
  /\ UNCHANGED <<mode, result, heap, ret, dist_out, path_out, fail, lookup_out, min_node, hist>>

NextCreate == CreateGraph \/ FreeGraph

SpecCreate == InitCreate /\ [][NextCreate]_vars

\* C21: for every node count N > 0 the bucket count create_graph chooses is
\* max(2 * N, HASH_TABLE_SIZE), so that N / buckets is at most 0.5.
C21_BucketsAtLeastTwiceNodes ==
  pc = "created" =>
    /\ graph.node_hash.size
         = (IF 2 * graph.num_nodes > HASH_TABLE_SIZE
              THEN 2 * graph.num_nodes ELSE HASH_TABLE_SIZE)
    /\ 2 * graph.num_nodes <= graph.node_hash.size

\* ------------------------------------------------------------------------
\* The heap on its own
\* ------------------------------------------------------------------------
\* The entries a caller inserts: two node indices, costs 0..max_cost.
HeapEntries(max_cost) ==
  {[node_index |-> n, distance |-> ToDouble(c)] : n \in 0..1, c \in 0..max_cost}

\* A heap just created, of capacity 1..MaxHeapCapacity.
InitHeap ==
  /\ mode = DIJKSTRA_SHORTEST_DISTANCE
  /\ result = NoResult
  /\ ret = ERR_SUCCESS
  /\ dist_out = NoDistOut
  /\ path_out = NoPathOut
  /\ lookup_out = NoLookupOut
  /\ min_node = NoMinNode
  /\ hist = NoHist(FALSE)
  /\ pc = "heap"
  /\ graph = NoGraph
  /\ graph_ptr = "NULL"
  /\ fail = NoFail
  /\ \E capacity \in 1..MaxHeapCapacity :
       LET created == create_heap(NewMem(0, {}), capacity)
       IN  /\ heap = created.heap
           /\ mem = created.mem

\* insert_heap(heap, node_index, distance).
InsertHeap ==
  /\ pc = "heap"
  /\ \E entry \in HeapEntries(MaxHeapCost) :
       LET ins == insert_heap(heap, entry.node_index, entry.distance)
       IN  /\ ret' = ins.err
           /\ heap' = ins.heap
  /\ UNCHANGED <<graph, pc, mode, result, dist_out, path_out, mem, fail,
                 graph_ptr, lookup_out, hist, min_node>>

\* extract_min(heap, &min_node).
ExtractMin ==
  /\ pc = "heap"
  /\ LET ex == extract_min(heap)
     IN  /\ ret' = ex.err
         /\ heap' = ex.heap
         /\ min_node' = ex.min_node
  /\ UNCHANGED <<graph, pc, mode, result, dist_out, path_out, mem, fail,
                 graph_ptr, lookup_out, hist>>

NextHeap == InsertHeap \/ ExtractMin

SpecHeap == InitHeap /\ [][NextHeap]_vars

Sentinel == [node_index |-> -1, distance |-> INFINITY_DBL]

\* C22: extract_min on an empty heap returns ERR_SUCCESS with the sentinel
\* entry (node_index -1, distance INFINITY_DBL) and leaves the heap empty.
C22_EmptyExtractIsSentinel ==
  [][(ExtractMin /\ heap.size = 0) =>
       /\ ret' = ERR_SUCCESS
       /\ min_node' = Sentinel
       /\ heap' = heap
       /\ heap'.size = 0]_vars

\* C22 witness: extract_min has returned the sentinel on an empty heap of
\* capacity MaxHeapCapacity.
C22_Witness ==
  /\ pc = "heap"
  /\ heap.size = 0
  /\ heap.capacity = MaxHeapCapacity
  /\ min_node = Sentinel
  /\ ret = ERR_SUCCESS

\* Every parent's cost is at most the cost of each of its children.
HeapOrdered(h) ==
  \A i \in 1..(h.size - 1) : h.nodes[(i - 1) \div 2].distance <= h.nodes[i].distance

\* How often the entry stands in the heap array.
Held(h, entry) == Cardinality({k \in 0..(h.size - 1) : h.nodes[k] = entry})

HeldEntries(h) == {h.nodes[k] : k \in 0..(h.size - 1)}

\* C29: every insert_heap and extract_min leaves the heap array a min-heap;
\* extract_min on a heap with entries returns an entry of the least cost in
\* the heap and removes that one entry and no other; insert_heap on a full
\* heap returns an error and leaves contents and size as they were, and on a
\* heap with room it adds its entry and no other.
C29_HeapDiscipline ==
  [][/\ NextHeap => HeapOrdered(heap')
     /\ (ExtractMin /\ heap.size > 0) =>
          /\ ret' = ERR_SUCCESS
          /\ min_node' \in HeldEntries(heap)
          /\ \A entry \in HeldEntries(heap) : min_node'.distance <= entry.distance
          /\ heap'.size = heap.size - 1
          /\ \A entry \in HeldEntries(heap) :
               Held(heap', entry)
                 = Held(heap, entry) - (IF entry = min_node' THEN 1 ELSE 0)
     /\ (InsertHeap /\ heap.size >= heap.capacity) =>
          /\ ret' # ERR_SUCCESS
          /\ heap' = heap
     /\ (InsertHeap /\ heap.size < heap.capacity) =>
          /\ ret' = ERR_SUCCESS
          /\ heap'.size = heap.size + 1
          /\ \E added \in HeldEntries(heap') :
               \A entry \in HeldEntries(heap') :
                 Held(heap', entry)
                   = Held(heap, entry) + (IF entry = added THEN 1 ELSE 0)]_vars

\* C29 witness: a heap of capacity 3, from which an entry of cost 0 was
\* extracted, is full again with the costs 1, 2, 1 and has refused an insert.
C29_Witness ==
  /\ pc = "heap"
  /\ heap.capacity = 3
  /\ heap.size = 3
  /\ ret = ERR_MEMORY_ALLOCATION
  /\ min_node # NoMinNode
  /\ min_node # Sentinel
  /\ min_node.distance = 0
  /\ heap.nodes[0].distance = ToDouble(1)
  /\ heap.nodes[1].distance = ToDouble(2)
  /\ heap.nodes[2].distance = ToDouble(1)

\* C23: every edge of a graph that load_graph_from_binary has constructed
\* has length > 0, so that no edge of length 0 reaches the CSR or a solve.
C23_LoadedLengthsPositive ==
  pc \in {"idle", "loop", "exit", "done"} =>
    \A e \in DOMAIN graph.edges : graph.edges[e].length > 0

\* ------------------------------------------------------------------------
\* The solver running to its end
\* ------------------------------------------------------------------------
InitCycle == InitWith(Loaded(CycleInputs(MaxCycleLength)), {NoFail}, FALSE)

\* The solver's loop is sequential code: an iteration that can run does run,
\* and so does the return after the loop.
SpecCycle ==
  /\ InitCycle
  /\ [][Next]_vars
  /\ WF_vars(Iterate)
  /\ WF_vars(ExitLoop)

\* C24: every solve that has entered its main loop returns; the loop is left
\* only with the target settled, with the heap empty or with an error; and
\* the backtracking of get_shortest_path on the result of a successful solve
\* comes to the source or to a 'none' predecessor, never round a cycle.
C24_SolveTerminates ==
  /\ (pc \in {"loop", "exit"}) ~> (pc = "done")
  /\ [][(pc = "loop" /\ pc' # "loop") =>
          \/ pc' = "exit" /\ result'.target_found
          \/ pc' = "done" /\ ret' = ERR_SUCCESS /\ is_heap_empty(heap)
          \/ pc' = "done" /\ ret' # ERR_SUCCESS]_vars
  /\ [](Solved => ~get_shortest_path(result).hangs)
  /\ [](~path_out.hangs)

\* C24 witness: on a cycle of edges of length 0 a solve has returned with the
\* target found two edges from the source and get_shortest_path has returned
\* the path of three nodes.
C24_Witness ==
  /\ Solved
  /\ \A e \in DOMAIN graph.edges : graph.edges[e].length = 0
  /\ result.target_found
  /\ path_out.called
  /\ path_out.err = ERR_SUCCESS
  /\ path_out.path_length = 3

\* The iteration in hand extracts the target, not visited before.
SettlesTarget ==
  /\ Iterate
  /\ extract_min(heap).min_node.node_index = result.target_index
  /\ ~result.visited[result.target_index]

\* C25: the iteration that extracts the target marks it visited, sets
\* target_found and leaves the loop without relaxing an edge (distances and
\* predecessors as they were, nothing inserted); after it nothing but the
\* return follows; at the return no visited node is farther than the target;
\* and target_found holds exactly when the target is visited.
C25_StopsAtTarget ==
  /\ [](Live => (result.target_found <=> result.visited[result.target_index]))
  /\ [](Solved =>
          \A v \in DOMAIN result.visited :
            result.visited[v]
              => result.distances[v] <= result.distances[result.target_index])
  /\ [][SettlesTarget =>
          /\ pc' = "exit"
          /\ result'.target_found
          /\ result'.visited[result.target_index]
          /\ result'.distances = result.distances
          /\ result'.predecessors = result.predecessors
          /\ heap' = extract_min(heap).heap]_vars
  /\ [][pc = "exit" =>
          /\ pc' = "done"
          /\ ret' = ERR_SUCCESS
          /\ result' = result
          /\ heap' = NoHeap]_vars

\* C25 witness: a solve has returned with the target found, and an edge
\* leads on from the target to a node that was left unreached.
C25_Witness ==
  /\ Solved
  /\ result.target_found
  /\ \E v \in DOMAIN result.visited, e \in DOMAIN graph.edges :
       /\ Traversable(graph, e, result.target_index, v)
       /\ ~result.visited[v]
       /\ result.distances[v] = INFINITY_DBL
       /\ result.predecessors[v] = -1

\* The entry the iteration in hand extracts.
Extracted == extract_min(heap).min_node

\* The iteration in hand extracts an entry of a node visited before.
StaleExtraction == Iterate /\ result.visited[Extracted.node_index]

\* C26: within one solve a node that is visited stays visited with the
\* distance and the predecessor it has; an iteration marks at most one node,
\* the one it extracted, and only if it was not visited; an iteration that
\* extracts an entry of a visited node takes that one entry out of the heap
\* and changes nothing else.
C26_VisitedIsFinal ==
  [][/\ (Live /\ Live') =>
          /\ \A v \in DOMAIN result.visited :
               result.visited[v] =>
                 /\ result'.visited[v]
                 /\ result'.distances[v] = result.distances[v]
                 /\ result'.predecessors[v] = result.predecessors[v]
          /\ {v \in DOMAIN result.visited : ~result.visited[v] /\ result'.visited[v]}
               \subseteq (IF Iterate THEN {Extracted.node_index} ELSE {})
     /\ StaleExtraction =>
          /\ result' = result
          /\ pc' = "loop"
          /\ heap'.size = heap.size - 1
          /\ \A entry \in HeldEntries(heap) :
               Held(heap', entry)
                 = Held(heap, entry) - (IF entry = Extracted THEN 1 ELSE 0)
          /\ UNCHANGED <<graph, mode, ret, dist_out, path_out, mem>>]_vars

\* C26 witness: the loop is at its test with one entry left in the heap, the
\* entry of a node that is visited already at a smaller distance.
C26_Witness ==
  /\ pc = "loop"
  /\ heap.size = 1
  /\ result.visited[heap.nodes[0].node_index]
  /\ result.distances[heap.nodes[0].node_index] < heap.nodes[0].distance

\* C27: when a solve returns ERR_SUCCESS with target_found = FALSE, the
\* visited nodes are exactly the nodes reachable from the source, each with
\* its true shortest cost as distance; every other node has the distance
\* INFINITY_DBL and the predecessor -1, the target among them.
C27_ExhaustedSolveIsExact ==
  (Solved /\ ~result.target_found) =>
    \E ref \in {RefDist(graph, mode, result.source_index)} :
      /\ \A v \in DOMAIN result.visited :
           /\ result.visited[v] <=> Reachable(graph, result.source_index, v)
           /\ result.visited[v] => result.distances[v] = ref[v]
           /\ ~result.visited[v] =>
                /\ result.distances[v] = INFINITY_DBL
                /\ result.predecessors[v] = -1
      /\ ~result.visited[result.target_index]
      /\ result.distances[result.target_index] = INFINITY_DBL

\* C27 witness: a solve in time mode has returned ERR_SUCCESS without the
\* target, having visited a node that an edge from the source reaches at a
\* higher cost than its distance.
C27_Witness ==
  /\ Solved
  /\ ~result.target_found
  /\ mode = DIJKSTRA_FASTEST_TIME
  /\ \E v \in DOMAIN result.visited, e \in DOMAIN graph.edges :
       /\ v # result.source_index
       /\ result.visited[v]
       /\ Traversable(graph, e, result.source_index, v)
       /\ RefCost(graph.edges[e], mode) > result.distances[v]

\* ------------------------------------------------------------------------
\* Solves over edges of mixed speed limits
\* ------------------------------------------------------------------------
InitSpeed ==
  InitWith(Loaded(GeneralInputs(MaxNodes, MaxEdges, 1)
                    \cup SpeedInputs(MaxSpeedParallel)),
           {NoFail}, FALSE)

SpecSpeed == InitSpeed /\ [][Next]_vars

\* The iteration in hand expands a node: it extracts a node that is neither
\* visited nor the target.
Expanding ==
  /\ Iterate
  /\ ~result.visited[Extracted.node_index]
  /\ Extracted.node_index # result.target_index

\* The node being expanded has a traversable edge of speed_limit 0 to a node
\* that is not visited (the node itself is marked before its edges are read).
ZeroSpeedAhead ==
  \E e \in DOMAIN graph.edges, v \in DOMAIN result.visited :
    /\ graph.edges[e].speed_limit = 0
    /\ Traversable(graph, e, Extracted.node_index, v)
    /\ v # Extracted.node_index
    /\ ~result.visited[v]

\* C28: a solve returns ERR_INVALID_DATA exactly when it is in time mode and
\* the node it expands, the target not settled, has a traversable edge of
\* speed_limit 0 to a node not yet visited; no other zero-speed edge makes
\* the solve fail.
C28_InvalidDataIffZeroSpeedExamined ==
  [][(pc # "done" /\ pc' = "done" /\ ret' = ERR_INVALID_DATA)
       <=> (pc = "loop" /\ mode = DIJKSTRA_FASTEST_TIME /\ Expanding /\ ZeroSpeedAhead)]_vars

\* C30: throughout a solve a node is settled at a cost that is at least the
\* cost of every node settled before it, and that is its distance; the
\* source keeps distance 0 and predecessor -1; and every node with a
\* predecessor has a visited predecessor p and a distance that is the
\* distance of p plus the cost of a traversable edge from p to it.
C30_SettledInCostOrder ==
  /\ [][(Iterate /\ ~result.visited[Extracted.node_index]) =>
          /\ Extracted.distance = result.distances[Extracted.node_index]
          /\ \A v \in DOMAIN result.visited :
               result.visited[v] => result.distances[v] <= Extracted.distance]_vars
  /\ [](Live =>
          /\ result.distances[result.source_index] = 0
          /\ result.predecessors[result.source_index] = -1
          /\ \A v \in DOMAIN result.predecessors :
               result.predecessors[v] # -1 =>
                 \E p \in {result.predecessors[v]} :
                   /\ p \in DOMAIN result.visited
                   /\ result.visited[p]
                   /\ \E e \in DOMAIN graph.edges :
                        /\ Traversable(graph, e, p, v)
                        /\ RefCost(graph.edges[e], mode) < INFINITY_DBL
                        /\ result.distances[v]
                             = result.distances[p] + RefCost(graph.edges[e], mode))

\* C30 witness: the loop is running with three nodes visited at the costs
\* 0 < c1 < c2, the last one through a predecessor that is not the source.
C30_Witness ==
  /\ pc \in {"loop", "exit"}
  /\ \A v \in DOMAIN result.visited : result.visited[v]
  /\ \E v \in DOMAIN result.visited :
       /\ result.predecessors[v] \notin {-1, result.source_index}
       /\ result.distances[result.predecessors[v]] > 0
       /\ result.distances[v] > result.distances[result.predecessors[v]]
  /\ result.num_nodes = 3

====
